---- MODULE Spec2Model ----
(***************************************************************************)
(* A model of the telebot engine (src/src/engine/engine.ts), its builders  *)
(* (src/src/menu/*.ts, list.ts) and its conversation helper                *)
(* (conversation.ts).                                                      *)
(*                                                                         *)
(* Strings are sequences of one-character strings, so that the callback    *)
(* tokens are built by concatenation and taken apart by split / indexOf /  *)
(* slice exactly as the code does.  UndefS is JavaScript's undefined where *)
(* a string is expected, UndefP where a payload (an object) is expected.   *)
(***************************************************************************)
EXTENDS Integers, Sequences, FiniteSets, TLC

VARIABLES
    inp,        \* the arguments of the operation under study (pure-function specifications)
    out,        \* its result
    phase,      \* "in" before the operation has run, "out" after it, "pressed" after a press
    pressed,    \* the button pressed in the rendered keyboard and what the dispatcher parsed
    defs,       \* the menus created by createMenu: menu id -> the layout its builder makes
    menus,      \* installMenu's menus map: menu id -> [layout, parent]
    actions,    \* installMenu's actions map, as the set of its keys
    pageState,  \* the module-level pageState map
    screen,     \* the menu message in the chat: what the last render put there
    script,     \* the steps of the handler of action ActA
    session,    \* the chat's session: __telebot_payload, __telebot_last_msg_id, originMenuId
    active,     \* the active conversation instances of the chat, oldest first
    msgs,       \* the bot's messages in the chat, by message id
    everEnded,  \* a conversation instance has ended in the chat
    event       \* what the handling of the last update did

pvars == <<inp, out, phase, pressed>>
nvars == <<defs, menus, actions, pageState, screen>>
cvars == <<script, session, active, msgs, everEnded, event>>
vars == <<pvars, nvars, cvars>>

-----------------------------------------------------------------------------
(* Bounds *)

MaxBtns == 3        \* buttons declared in one layout
MaxItems == 5       \* items of a list
MaxPerPage == 3     \* itemsPerPage of a list
MaxNum == 12        \* numeric payload ids are 0 .. MaxNum
MaxMsgs == 2        \* messages of the bot the chat shows at once
MaxSent == 3        \* messages the bot sends to the chat
MaxOld == 1         \* messages of the chat the transport refuses to edit

-----------------------------------------------------------------------------
(* JavaScript values *)

UndefS == <<"undefined">>
UndefP == [t |-> "undefined"]

Num(n) == [t |-> "num", n |-> n]
StrV(s) == [t |-> "str", s |-> s]
EmptyObj == [t |-> "obj0"]
Obj1(k, v) == [t |-> "obj", k |-> k, v |-> v]
IdObj(v) == Obj1(<<"i", "d">>, v)

Digits == <<"0", "1", "2", "3", "4", "5", "6", "7", "8", "9">>

IsDigit(c) == \E i \in 1..10 : Digits[i] = c

DigitVal(c) == (CHOOSE i \in 1..10 : Digits[i] = c) - 1

RECURSIVE NumToStr(_)
\* String(n) of a non-negative integer
NumToStr(n) == IF n < 10 THEN <<Digits[n + 1]>>
               ELSE NumToStr(n \div 10) \o <<Digits[(n % 10) + 1]>>

RECURSIVE DigitsToNum(_)
DigitsToNum(s) == IF s = <<>> THEN 0
                  ELSE 10 * DigitsToNum(SubSeq(s, 1, Len(s) - 1)) + DigitVal(s[Len(s)])

\* isNaN(Number(s)): over the characters used here (letters other than e and x,
\* digits, punctuation) Number(s) is a number exactly for the strings of digits
\* (Number("") is 0).
NumberIsNaN(s) == \E i \in 1..Len(s) : ~IsDigit(s[i])

\* String(v) of a payload member
ValToStr(v) == IF v.t = "num" THEN NumToStr(v.n) ELSE v.s

-----------------------------------------------------------------------------
(* String primitives *)

\* s.indexOf(c), 0 standing for -1
IndexOf(s, c) == IF \E i \in 1..Len(s) : s[i] = c
                 THEN CHOOSE i \in 1..Len(s) : s[i] = c /\ \A j \in 1..(i - 1) : s[j] # c
                 ELSE 0

RECURSIVE Split(_, _)
\* s.split(c)
Split(s, c) == LET i == IndexOf(s, c)
               IN  IF i = 0 THEN <<s>>
                   ELSE <<SubSeq(s, 1, i - 1)>> \o Split(SubSeq(s, i + 1, Len(s)), c)

\* s.slice(n) with n counted from 0
SliceFrom(s, n) == SubSeq(s, n + 1, Len(s))

StartsWith(s, p) == Len(s) >= Len(p) /\ SubSeq(s, 1, Len(p)) = p

RECURSIVE Join(_, _)
\* parts.join(c)
Join(parts, c) == IF Len(parts) = 0 THEN <<>>
                  ELSE IF Len(parts) = 1 THEN parts[1]
                  ELSE parts[1] \o <<c>> \o Join(Tail(parts), c)

\* JavaScript truthiness of an optional string
TruthyS(s) == s # UndefS /\ s # <<>>

-----------------------------------------------------------------------------
(* JSON *)

Quote(s) == <<"\"">> \o s \o <<"\"">>

JsonVal(v) == IF v.t = "num" THEN NumToStr(v.n) ELSE Quote(v.s)

\* JSON.stringify of a payload object with at most one member
JsonStringify(p) == IF p.t = "obj0" THEN <<"{", "}">>
                    ELSE <<"{">> \o Quote(p.k) \o <<":">> \o JsonVal(p.v) \o <<"}">>

\* JSON.parse restricted to what JsonStringify can have written: the object whose
\* text is s, and undefined (the exception is caught) for any other text.
JsonParse(s, objs) == IF \E o \in objs : JsonStringify(o) = s
                      THEN CHOOSE o \in objs : JsonStringify(o) = s
                      ELSE UndefP

-----------------------------------------------------------------------------
(* Pagination state: engine.ts pageState / pageKey *)

\* A key that leaves the chat out
pageKeyMut(chatId, menuId, listIdx) ==
    menuId \o <<":">> \o NumToStr(listIdx)

pageKey(chatId, menuId, listIdx) ==
    NumToStr(chatId) \o <<":">> \o menuId \o <<":">> \o NumToStr(listIdx)

\* pageState.get(pk) ?? 0
PageGet(ps, pk) == IF pk \in DOMAIN ps THEN ps[pk] ELSE 0

-----------------------------------------------------------------------------
(* Button and list configurations: button.ts ButtonConfig, list.ts ListConfig *)

\* new ButtonBuilder(label)._config; label is a string, or, for a label given as a
\* function of the context (dynamic), the string the function returns
NewButton(label) ==
    [label |-> label, dynamic |-> FALSE, buttonId |-> UndefS, url |-> UndefS, forceRow |-> FALSE,
     isDefault |-> FALSE, guard |-> "none", action |-> "none", actionId |-> UndefS,
     tabText |-> UndefS, inlineHandler |-> FALSE, submenu |-> UndefS, payload |-> UndefP]

\* isActionRef(cfg.action)
isActionRef(cfg) == cfg.action = "ref"

\* passesGuard(cfg.guard, ctx): a guard is modelled by the value it returns for ctx
passesGuardMut(cfg) == TRUE
passesGuard(cfg) == cfg.guard # "fail"

\* resolveLabel(config, ctx, translator), without a translator
resolveLabel(cfg) == cfg.label

\* resolveStableId(menuId, cfg, index)
resolveStableId(menuId, cfg, index) ==
    IF TruthyS(cfg.buttonId) THEN <<"a">> \o cfg.buttonId
    ELSE <<"a">> \o menuId \o <<"_">> \o NumToStr(index)

\* Object.keys(p).length === 1 && "id" in p
IsIdOnly(p) == p.t = "obj" /\ p.k = <<"i", "d">>

\* cfg.buttonId || ""
IdOrEmpty(cfg) == IF TruthyS(cfg.buttonId) THEN cfg.buttonId ELSE <<>>

\* engine.ts 209 and 274: the payload text of an inline-handler button and of a
\* list item, which inherit the payload of the action being rendered
PStrInherit(cfg, currentPayload) ==
    LET p == IF cfg.payload # UndefP THEN cfg.payload ELSE currentPayload
    IN  IF p # UndefP /\ IsIdOnly(p) THEN ValToStr(p.v)
        ELSE IF p # UndefP THEN JsonStringify(p)
        ELSE IdOrEmpty(cfg)

\* engine.ts 220: the payload text of an ActionRef button
PStrRef(cfg) ==
    LET p == cfg.payload
    IN  IF p # UndefP /\ IsIdOnly(p) THEN ValToStr(p.v)
        ELSE IF p # UndefP THEN JsonStringify(p)
        ELSE IdOrEmpty(cfg)

-----------------------------------------------------------------------------
(* grammY InlineKeyboard: rows of buttons, starting with one empty row *)

NewKeyboard == << <<>> >>
KbRow(kb) == Append(kb, <<>>)
KbAdd(kb, b) == [kb EXCEPT ![Len(kb)] = Append(@, b)]

\* keyboard.text(label, data); src names the layout element the button came from
\* (a bookkeeping field, not sent to the transport)
TextBtn(label, data, src) == [label |-> label, data |-> data, url |-> UndefS, src |-> src]
UrlBtn(label, url, src) == [label |-> label, data |-> UndefS, url |-> url, src |-> src]

-----------------------------------------------------------------------------
(* buildKeyboard: engine.ts 136-319 *)

Min(a, b) == IF a < b THEN a ELSE b

\* items.slice(a, b) for 0 <= a
SliceJS(items, a, b) == SubSeq(items, Min(a, Len(items)) + 1, Min(b, Len(items)))

\* Math.ceil(n / per) for per > 0
CeilDiv(n, per) == (n + per - 1) \div per

BackLabel == <<"B", "a", "c", "k">>
PrevLabel == <<"<">>
NextLabel == <<">">>
DefaultText == <<"M", "e", "n", "u">>

\* engine.ts 199-227: the callback data of a declared button
ButtonCbData(menuId, cfg, myIndex, btnId, currentPayload) ==
    IF cfg.inlineHandler
    THEN LET id == resolveStableId(menuId, cfg, myIndex)
             prefix == IF StartsWith(menuId, <<"a">>) THEN <<"a", "i", ":">> ELSE <<"a", ":">>
         IN  prefix \o id \o <<"/">> \o menuId \o <<":">> \o PStrInherit(cfg, currentPayload)
    ELSE IF cfg.submenu # UndefS
    THEN <<"n", ":">> \o cfg.submenu
    ELSE IF isActionRef(cfg)
    THEN <<"a", ":">> \o cfg.actionId \o <<"/">> \o menuId \o <<":">> \o PStrRef(cfg)
    ELSE IF cfg.action = "fn"
    THEN <<"t", ":">> \o menuId \o <<":">> \o btnId
    ELSE <<"_", ":">> \o menuId \o <<":">> \o btnId

\* engine.ts 193: does this button start a new row
RowBreakMut(cfg, maxPerRow, currentRowCount) ==
    cfg.forceRow \/ (maxPerRow > 0 /\ currentRowCount > maxPerRow)
RowBreak(cfg, maxPerRow, currentRowCount) ==
    cfg.forceRow \/ (maxPerRow > 0 /\ currentRowCount >= maxPerRow)

\* A button case that counts the buttons it shows
BKButtonMut(acc, cfg, env) ==
    LET myIndex == acc.btnIndex
        acc1 == [acc EXCEPT !.btnIndex = @ + 1]
        label == resolveLabel(cfg)
        btnId == IF cfg.buttonId # UndefS THEN cfg.buttonId ELSE label
        brk == RowBreak(cfg, env.maxPerRow, acc.cnt)
        kb1 == IF brk THEN KbRow(acc.kb) ELSE acc.kb
        cnt1 == IF brk THEN 0 ELSE acc.cnt
        src == [k |-> "button", i |-> myIndex]
        btn == IF TruthyS(cfg.url) THEN UrlBtn(label, cfg.url, src)
               ELSE TextBtn(label, ButtonCbData(env.menuId, cfg, myIndex, btnId, env.currentPayload), src)
    IN  IF ~passesGuard(cfg) THEN acc
        ELSE [acc1 EXCEPT !.kb = KbAdd(kb1, btn), !.cnt = cnt1 + 1]

\* engine.ts 183-236: case "button"
BKButton(acc, cfg, env) ==
    LET myIndex == acc.btnIndex
        acc1 == [acc EXCEPT !.btnIndex = @ + 1]
        label == resolveLabel(cfg)
        btnId == IF cfg.buttonId # UndefS THEN cfg.buttonId ELSE label
        brk == RowBreak(cfg, env.maxPerRow, acc.cnt)
        kb1 == IF brk THEN KbRow(acc.kb) ELSE acc.kb
        cnt1 == IF brk THEN 0 ELSE acc.cnt
        src == [k |-> "button", i |-> myIndex]
        btn == IF TruthyS(cfg.url) THEN UrlBtn(label, cfg.url, src)
               ELSE TextBtn(label, ButtonCbData(env.menuId, cfg, myIndex, btnId, env.currentPayload), src)
    IN  IF ~passesGuard(cfg) THEN acc1
        ELSE [acc1 EXCEPT !.kb = KbAdd(kb1, btn), !.cnt = cnt1 + 1]

\* engine.ts 263-265 and button.ts 83-97: the list's default action for an item
\* button that has no target
ItemCfg(lcfg, item) ==
    LET b == lcfg.renderFn[item]
    IN  IF b.action = "none" /\ ~b.inlineHandler /\ b.submenu = UndefS /\ lcfg.action # UndefS
        THEN [b EXCEPT !.action = "ref", !.actionId = lcfg.action, !.inlineHandler = FALSE]
        ELSE b

\* engine.ts 270-278: the callback data of a list item
ItemCbData(menuId, bcfg, btnId, currentPayload) ==
    IF isActionRef(bcfg)
    THEN <<"a", ":">> \o bcfg.actionId \o <<"/">> \o menuId \o <<":">> \o PStrInherit(bcfg, currentPayload)
    ELSE <<"_", ":">> \o menuId \o <<":">> \o btnId

RECURSIVE BKItems(_, _, _, _, _, _)
\* engine.ts 255-281: the buttons of the items of the current page
BKItems(kb, colCount, pageItems, i, lcfg, env) ==
    IF i > Len(pageItems) THEN kb
    ELSE LET wrap == colCount > 0 /\ colCount >= lcfg.columns
             kb1 == IF wrap THEN KbRow(kb) ELSE kb
             col1 == IF wrap THEN 0 ELSE colCount
             bcfg == ItemCfg(lcfg, pageItems[i])
             label == resolveLabel(bcfg)
             btnId == IF bcfg.buttonId # UndefS THEN bcfg.buttonId ELSE label
             btn == TextBtn(label, ItemCbData(env.menuId, bcfg, btnId, env.currentPayload),
                            [k |-> "item", i |-> pageItems[i]])
         IN  BKItems(KbAdd(kb1, btn), col1 + 1, pageItems, i + 1, lcfg, env)

\* engine.ts 245
TotalPages(lcfg) == CeilDiv(Len(lcfg.items), lcfg.itemsPerPage)

\* engine.ts 246-247
PageItemsMut(lcfg, currentPage) ==
    SliceJS(lcfg.items, currentPage * lcfg.itemsPerPage + 1,
            currentPage * lcfg.itemsPerPage + lcfg.itemsPerPage)
PageItems(lcfg, currentPage) ==
    SliceJS(lcfg.items, currentPage * lcfg.itemsPerPage,
            currentPage * lcfg.itemsPerPage + lcfg.itemsPerPage)

PageToken(menuId, listIdx, page) ==
    <<"p", ":">> \o menuId \o <<":">> \o NumToStr(listIdx) \o <<":">> \o NumToStr(page)

\* engine.ts 283-293: the pagination controls
BKControls(kb, menuId, listIdx, currentPage, totalPages) ==
    IF totalPages > 1
    THEN LET k0 == KbRow(kb)
             k1 == IF currentPage > 0
                   THEN KbAdd(k0, TextBtn(PrevLabel, PageToken(menuId, listIdx, currentPage - 1),
                                          [k |-> "prev", i |-> listIdx]))
                   ELSE k0
             k2 == KbAdd(k1, TextBtn(NumToStr(currentPage + 1) \o <<"/">> \o NumToStr(totalPages),
                                     <<"_", ":">> \o menuId \o <<":", "p", "a", "g", "e", "-", "i", "n", "f", "o">>,
                                     [k |-> "info", i |-> listIdx]))
         IN  IF currentPage < totalPages - 1
             THEN KbAdd(k2, TextBtn(NextLabel, PageToken(menuId, listIdx, currentPage + 1),
                                    [k |-> "next", i |-> listIdx]))
             ELSE k2
    ELSE kb

\* engine.ts 238-299: case "list"
BKList(acc, lcfg, env) ==
    IF ~lcfg.hasRender THEN acc
    ELSE LET currentPage == PageGet(env.ps, pageKey(env.chatId, env.menuId, acc.listIdx))
             totalPages == TotalPages(lcfg)
             pageItems == PageItems(lcfg, currentPage)
             kb0 == IF acc.cnt > 0 THEN KbRow(acc.kb) ELSE acc.kb
             kb1 == BKItems(kb0, 0, pageItems, 1, lcfg, env)
             kb2 == BKControls(kb1, env.menuId, acc.listIdx, currentPage, totalPages)
         IN  [acc EXCEPT !.kb = KbRow(kb2), !.cnt = 0, !.listIdx = @ + 1]

\* engine.ts 170-308: one element of the snapshot
BKElement(acc, el, env) ==
    CASE el.kind = "text" -> [acc EXCEPT !.text = el.content]
      [] el.kind = "image" -> [acc EXCEPT !.imageUrl = el.url]
      [] el.kind = "button" -> BKButton(acc, el.cfg, env)
      [] el.kind = "list" -> BKList(acc, el.cfg, env)
      [] el.kind = "refresh" ->
            [acc EXCEPT !.kb = KbAdd(KbRow(acc.kb),
                                     TextBtn(el.label, <<"r", ":">> \o env.menuId,
                                             [k |-> "refresh", i |-> 0])),
                        !.cnt = 0]

RECURSIVE BKLoop(_, _, _, _)
BKLoop(acc, els, i, env) ==
    IF i > Len(els) THEN acc ELSE BKLoop(BKElement(acc, els[i], env), els, i + 1, env)

\* The number of buttons among the first i elements
ButtonsBefore(elements, i) ==
    Cardinality({j \in 1..i : elements[j].kind = "button"})

\* engine.ts 154-165: the pre-scan stops at the first button flagged default and
\* runs its handler if it is a tab; a tab handler is modelled by the text element
\* it adds to the layout. ran lists the buttons whose handler was run, by their
\* index among the buttons
PreScan(elements) ==
    LET flagged == {i \in 1..Len(elements) : elements[i].kind = "button" /\ elements[i].cfg.isDefault}
    IN  IF flagged = {} THEN [elements |-> elements, ran |-> <<>>]
        ELSE LET d == CHOOSE i \in flagged : \A j \in flagged : i <= j
             IN  IF elements[d].cfg.action = "fn"
                 THEN [elements |-> Append(elements, [kind |-> "text",
                                                      content |-> elements[d].cfg.tabText]),
                       ran |-> <<ButtonsBefore(elements, d) - 1>>]
                 ELSE [elements |-> elements, ran |-> <<>>]

\* engine.ts 168: the snapshot of the elements, taken after the pre-scan
Snapshot(elements) == PreScan(elements).elements

\* buildKeyboard(menuId, layout, ctx, chatId, translator, backToMenuId, currentPayload),
\* without a translator; ps is the module-level pageState
buildKeyboard(menuId, layout, chatId, backToMenuId, currentPayload, ps) ==
    LET env == [menuId |-> menuId, maxPerRow |-> layout.maxPerRow, chatId |-> chatId,
                currentPayload |-> currentPayload, ps |-> ps]
        acc0 == [kb |-> NewKeyboard, cnt |-> 0, listIdx |-> 0, btnIndex |-> 0,
                 text |-> <<>>, imageUrl |-> UndefS]
        acc == BKLoop(acc0, Snapshot(layout.elements), 1, env)
        ran == PreScan(layout.elements).ran
        kb == IF TruthyS(backToMenuId)
              THEN KbAdd(KbRow(acc.kb), TextBtn(BackLabel, <<"n", ":">> \o backToMenuId,
                                                [k |-> "back", i |-> 0]))
              ELSE acc.kb
    IN  [text |-> IF acc.text = <<>> THEN DefaultText ELSE acc.text,
         keyboard |-> kb, imageUrl |-> acc.imageUrl, ran |-> ran]

\* The grid the chat shows: the rows that hold a button
Grid(kb) == SelectSeq(kb, LAMBDA row : row # <<>>)

-----------------------------------------------------------------------------
(* The dispatcher's parsing of a callback token: engine.ts 433-448, 556-579, 779-864 *)

NaN == 0 - 1

RECURSIVE LeadingDigits(_)
LeadingDigits(s) == IF s = <<>> \/ ~IsDigit(Head(s)) THEN <<>>
                    ELSE <<Head(s)>> \o LeadingDigits(Tail(s))

\* parseInt(s, 10) of a text without sign or leading blanks
ParseInt(s) == IF LeadingDigits(s) = <<>> THEN NaN ELSE DigitsToNum(LeadingDigits(s))

\* The payload objects a button of the model can carry
PayloadObjs ==
    {EmptyObj}
    \cup {IdObj(Num(n)) : n \in {0, 7, MaxNum}}
    \cup {IdObj(StrV(s)) : s \in {<<"x", "y">>, <<"1", "2">>, <<>>}}
    \cup {Obj1(<<"k">>, Num(1)), Obj1(<<"k">>, StrV(<<"v">>))}

\* engine.ts 439-445 and 858-863: the payload text of a token back to a payload
PayloadOfStrMut(pStr) ==
    IF pStr = <<>> THEN UndefP
    ELSE IF StartsWith(pStr, <<"{">>) THEN JsonParse(pStr, PayloadObjs)
    ELSE IdObj(StrV(pStr))
PayloadOfStr(pStr) ==
    IF pStr = <<>> THEN UndefP
    ELSE IF StartsWith(pStr, <<"{">>) THEN JsonParse(pStr, PayloadObjs)
    ELSE IdObj(IF NumberIsNaN(pStr) THEN StrV(pStr) ELSE Num(DigitsToNum(pStr)))

\* engine.ts 433-448: the payload of an a: token (undefined for any other data)
DecodeCallbackPayload(data) ==
    IF data # UndefS /\ StartsWith(data, <<"a", ":">>)
    THEN LET parts == Split(data, "/")
         IN  IF Len(parts) > 1
             THEN LET rest == parts[2]
                      colonIdx == IndexOf(rest, ":")
                      pStr == IF colonIdx # 0 THEN SliceFrom(rest, colonIdx) ELSE <<>>
                  IN  PayloadOfStr(pStr)
             ELSE UndefP
    ELSE UndefP

\* engine.ts 557-579: the action id and the origin menu id of an a: token
ParseActionToken(data) ==
    LET parts == Split(data, "/")
        right == parts[2]
        colonIdx == IndexOf(right, ":")
        origin == IF Len(parts) > 1
                  THEN (IF colonIdx # 0 THEN SubSeq(right, 1, colonIdx - 1) ELSE right)
                  ELSE UndefS
    IN  [actionId |-> IF Len(parts) > 1 THEN SliceFrom(parts[1], 2) ELSE SliceFrom(data, 2),
         originMenuId |-> IF origin = <<>> \/ origin = <<"u", "n", "d", "e", "f", "i", "n", "e", "d">>
                          THEN UndefS ELSE origin]

\* engine.ts 849-864: the parts of an ai: token (parts.length >= 2)
ParseInlineToken(data) ==
    LET parts == Split(data, "/")
        right == parts[2]
        colonIdx == IndexOf(right, ":")
    IN  [left |-> SliceFrom(parts[1], 3),
         originActionId |-> IF colonIdx # 0 THEN SubSeq(right, 1, colonIdx - 1) ELSE right,
         payload |-> PayloadOfStr(IF colonIdx # 0 THEN SliceFrom(right, colonIdx) ELSE <<>>)]

NoParse == [op |-> "none", target |-> UndefS, origin |-> UndefS, payload |-> UndefP,
            arg |-> UndefS, listIdx |-> NaN, page |-> NaN]

\* What the handlers of engine.ts 556-593 and 779-964 read out of a token, branch
\* by branch in the order of the code
DecodeToken(data) ==
    IF StartsWith(data, <<"a", ":">>)
    THEN [NoParse EXCEPT !.op = "a", !.target = ParseActionToken(data).actionId,
                         !.origin = ParseActionToken(data).originMenuId,
                         !.payload = DecodeCallbackPayload(data)]
    ELSE IF StartsWith(data, <<"n", ":">>)
    THEN [NoParse EXCEPT !.op = "n", !.target = SliceFrom(data, 2)]
    ELSE IF StartsWith(data, <<"p", ":">>)
    THEN LET parts == Split(data, ":")
         IN  [NoParse EXCEPT !.op = "p", !.target = parts[2],
                             !.listIdx = ParseInt(parts[3]), !.page = ParseInt(parts[4])]
    ELSE IF StartsWith(data, <<"r", ":">>)
    THEN [NoParse EXCEPT !.op = "r", !.target = SliceFrom(data, 2)]
    ELSE IF StartsWith(data, <<"t", ":">>)
    THEN LET parts == Split(data, ":")
         IN  [NoParse EXCEPT !.op = "t", !.target = parts[2],
                             !.arg = Join(SubSeq(parts, 3, Len(parts)), ":")]
    ELSE IF StartsWith(data, <<"a", "i", ":">>)
    THEN LET parts == Split(data, "/")
         IN  IF Len(parts) < 2 THEN NoParse
             ELSE [NoParse EXCEPT !.op = "ai", !.target = ParseInlineToken(data).left,
                                  !.origin = ParseInlineToken(data).originActionId,
                                  !.payload = ParseInlineToken(data).payload]
    ELSE IF StartsWith(data, <<"_", ":">>)
    THEN [NoParse EXCEPT !.op = "_"]
    ELSE NoParse

-----------------------------------------------------------------------------
(* Rendering and token parsing as a state machine: a layout is drawn, rendered  *)
(* by buildKeyboard, and one button of the rendered keyboard is pressed and its *)
(* token parsed by the dispatcher.                                              *)

MenuM == <<"m", "1">>
ActA == <<"a", "c", "7">>
\* ctx.chat.id of the update being handled: where several chats are served, inp
\* is the chat of the update
ChatId == IF phase = "chats" THEN inp ELSE 1

Lbl(i) == <<"b">> \o NumToStr(i)

\* A button of the row layouts: nothing but a guard and a forced row
RowButton(i, guard, forceRow) ==
    [kind |-> "button", cfg |-> [NewButton(Lbl(i)) EXCEPT !.guard = guard, !.forceRow = forceRow]]

\* layout.list(items).perPage(per).columns(cols).render(item => button(item)
\*   .payload({id: item}).action(ActA)), the buttons of the odd items guarded by itemGuard
ListEl(n, per, cols, itemGuard, hasRender) ==
    [kind |-> "list",
     cfg |-> [items |-> [i \in 1..n |-> i], itemsPerPage |-> per, columns |-> cols,
              hasRender |-> hasRender, action |-> UndefS,
              renderFn |-> [i \in 1..n |->
                  [NewButton(<<"i">> \o NumToStr(i)) EXCEPT
                      !.action = "ref", !.actionId = ActA, !.payload = IdObj(Num(i)),
                      !.guard = IF i % 2 = 1 THEN itemGuard ELSE "none"]]]]

RefreshEl == [kind |-> "refresh", label |-> <<"R">>]
TextEl(content) == [kind |-> "text", content |-> content]

RowElems(i) ==
    {RowButton(i, g, f) : g \in {"none", "fail"}, f \in BOOLEAN}
    \cup {RefreshEl, ListEl(2, 1, 1, "none", TRUE)}

RECURSIVE RowLayouts(_)
\* All element sequences of length n, the i-th element labelled by i
RowLayouts(n) ==
    IF n = 0 THEN {<<>>}
    ELSE {Append(l, e) : l \in RowLayouts(n - 1), e \in RowElems(n)}

NoPages == [k \in {} |-> 0]

RenderInput(menuId, elements, maxPerRow, back, currentPayload, ps) ==
    [menuId |-> menuId, layout |-> [elements |-> elements, maxPerRow |-> maxPerRow],
     backToMenuId |-> back, currentPayload |-> currentPayload, ps |-> ps]

RowInputs ==
    {RenderInput(MenuM, l, m, UndefS, UndefP, NoPages) :
        l \in UNION {RowLayouts(n) : n \in 0..MaxBtns}, m \in 0..MaxBtns}

\* A list after an optional guarded button, shown at each of its pages
ListInputs ==
    UNION {
        {RenderInput(MenuM, pre \o <<ListEl(n, per, cols, g, TRUE)>>, 0, back, UndefP, ps) :
            ps \in {NoPages} \cup {[k \in {pageKey(ChatId, MenuM, 0)} |-> pg] :
                                     pg \in 0..(IF n = 0 THEN 0 ELSE CeilDiv(n, per) - 1)},
            pre \in {<<>>, <<RowButton(0, "none", FALSE)>>, <<RowButton(0, "fail", FALSE)>>},
            back \in {UndefS, <<"r", "0">>}} :
        n \in 0..MaxItems, per \in 1..MaxPerPage, cols \in 1..2, g \in {"none", "fail"}}
    \cup {RenderInput(MenuM, <<ListEl(2, 1, 1, "none", FALSE)>>, 0, UndefS, UndefP, NoPages)}

\* One button of each target, with and without payload and button id, in a menu
\* and in the layout of an action
TargetButton(target, payload, buttonId) ==
    LET b == [NewButton(<<"L">>) EXCEPT !.payload = payload, !.buttonId = buttonId]
    IN  [kind |-> "button",
         cfg |-> CASE target = "inline" -> [b EXCEPT !.inlineHandler = TRUE]
                   [] target = "submenu" -> [b EXCEPT !.submenu = <<"m", "2">>]
                   [] target = "ref" -> [b EXCEPT !.action = "ref", !.actionId = ActA]
                   [] target = "fn" -> [b EXCEPT !.action = "fn", !.tabText = <<"T">>]
                   [] target = "url" -> [b EXCEPT !.url = <<"u">>]
                   [] target = "none" -> b]

Targets == {"inline", "submenu", "ref", "fn", "url", "none"}

CodecInputs ==
    {RenderInput(menuId, <<TargetButton(tg, pl, bid)>>, 0, UndefS, cur, NoPages) :
        menuId \in {MenuM, ActA}, tg \in Targets, pl \in PayloadObjs \cup {UndefP},
        bid \in {UndefS, <<"s", "v">>}, cur \in {UndefP, IdObj(Num(3))}}

RenderInputs == RowInputs \cup ListInputs \cup CodecInputs

EmptyMap == [k \in {} |-> 0]
NoScreen == [menuId |-> UndefS, text |-> <<>>, keyboard |-> <<>>, via |-> "none",
             ran |-> <<>>, defaults |-> {}]

\* The engine is not installed (specifications of the pure operations)
NavIdle ==
    /\ defs = EmptyMap /\ menus = EmptyMap /\ actions = {}
    /\ pageState = EmptyMap /\ screen = NoScreen

\* session initial (engine.ts 368-372)
NewSession == [payload |-> UndefP, originMenuId |-> UndefS]

\* No internalRenderLayout call
NoRender == [how |-> "none", edit |-> FALSE, prev |-> 0, target |-> 0, prevPhoto |-> FALSE,
             prevOld |-> FALSE, newPhoto |-> FALSE, before |-> 0, after |-> 0,
             prevKept |-> FALSE]

\* What the handling of the last update did (bookkeeping for the properties)
NoEvent == [kind |-> "none", trigger |-> "none", busy |-> FALSE, carried |-> UndefP,
            given |-> UndefP, origin |-> UndefS, cb |-> 0, at |-> 0,
            ended |-> FALSE, after |-> FALSE, touched |-> {}, fresh |-> FALSE,
            value |-> UndefP, form |-> <<>>, formDone |-> "none", asked |-> <<>>,
            error |-> "none", prompt |-> "none", tracked |-> 0, render |-> NoRender,
            u |-> [cbMsg |-> 0, cbPhoto |-> FALSE, data |-> UndefS, text |-> UndefS,
                   photo |-> FALSE],
            pc |-> 0, fld |-> 0, shown |-> <<>>, log |-> <<>>]

\* No conversation machinery (specifications of rendering and navigation)
ConvIdle ==
    /\ script = <<>> /\ session = NewSession /\ active = <<>> /\ msgs = <<>>
    /\ everEnded = FALSE /\ event = NoEvent

NotPressed == [label |-> UndefS, data |-> UndefS, url |-> UndefS, src |-> [k |-> "none", i |-> 0]]

InitRender ==
    /\ phase = "in"
    /\ inp \in RenderInputs
    /\ out = [text |-> <<>>, keyboard |-> <<>>, imageUrl |-> UndefS]
    /\ pressed = [btn |-> NotPressed, dec |-> NoParse]
    /\ NavIdle /\ ConvIdle

\* renderMenu's call of buildKeyboard (engine.ts 689)
Render ==
    /\ phase = "in"
    /\ out' = buildKeyboard(inp.menuId, inp.layout, ChatId, inp.backToMenuId,
                            inp.currentPayload, inp.ps)
    /\ phase' = "out"
    /\ UNCHANGED <<inp, pressed>>
    /\ UNCHANGED <<nvars, cvars>>

AllButtons(kb) == UNION {{kb[r][c] : c \in 1..Len(kb[r])} : r \in 1..Len(kb)}

\* The user presses a callback button of the rendered keyboard and the dispatcher
\* parses its data
PressButton ==
    /\ phase = "out"
    /\ \E r \in 1..Len(out.keyboard) : \E c \in 1..Len(out.keyboard[r]) :
          /\ out.keyboard[r][c].data # UndefS
          /\ pressed' = [btn |-> out.keyboard[r][c], dec |-> DecodeToken(out.keyboard[r][c].data)]
    /\ phase' = "pressed"
    /\ UNCHANGED <<inp, out>>
    /\ UNCHANGED <<nvars, cvars>>

NextRender == Render \/ PressButton

SpecRender == InitRender /\ [][NextRender]_vars

-----------------------------------------------------------------------------
(* Properties of rendering and of the token round trip (SpecRender) *)

RECURSIVE Flatten(_)
Flatten(rows) == IF rows = <<>> THEN <<>> ELSE Head(rows) \o Flatten(Tail(rows))

ButtonEls(layout) == SelectSeq(layout.elements, LAMBDA e : e.kind = "button")
ListEls(layout) == SelectSeq(layout.elements, LAMBDA e : e.kind = "list")

\* The configuration a rendered button was made from
CfgOf(b) == IF b.src.k = "button" THEN ButtonEls(inp.layout)[b.src.i + 1].cfg
            ELSE ListEls(inp.layout)[1].cfg.renderFn[b.src.i]

\* The payload the code means the token of a button to carry: the button's own
\* payload, else the payload of the action being rendered (inline handlers and
\* list items), else the button id
MeantPayload(cfg, inherits) ==
    IF cfg.payload # UndefP THEN cfg.payload
    ELSE IF inherits /\ inp.currentPayload # UndefP THEN inp.currentPayload
    ELSE IF TruthyS(cfg.buttonId) THEN IdObj(StrV(cfg.buttonId))
    ELSE UndefP

\* What buildKeyboard encoded into the token of rendered button b
Encoded(b) ==
    LET k == b.src.k
        cfg == CfgOf(b)
        btnId == IF cfg.buttonId # UndefS THEN cfg.buttonId ELSE cfg.label
    IN  CASE k = "button" /\ cfg.inlineHandler ->
                [NoParse EXCEPT !.op = IF StartsWith(inp.menuId, <<"a">>) THEN "ai" ELSE "a",
                                !.target = resolveStableId(inp.menuId, cfg, b.src.i),
                                !.origin = inp.menuId, !.payload = MeantPayload(cfg, TRUE)]
          [] k = "button" /\ ~cfg.inlineHandler /\ cfg.submenu # UndefS ->
                [NoParse EXCEPT !.op = "n", !.target = cfg.submenu]
          [] k = "button" /\ ~cfg.inlineHandler /\ cfg.submenu = UndefS /\ cfg.action = "ref" ->
                [NoParse EXCEPT !.op = "a", !.target = cfg.actionId, !.origin = inp.menuId,
                                !.payload = MeantPayload(cfg, FALSE)]
          [] k = "button" /\ ~cfg.inlineHandler /\ cfg.submenu = UndefS /\ cfg.action = "fn" ->
                [NoParse EXCEPT !.op = "t", !.target = inp.menuId, !.arg = btnId]
          [] k = "button" /\ ~cfg.inlineHandler /\ cfg.submenu = UndefS /\ cfg.action = "none" ->
                [NoParse EXCEPT !.op = "_"]
          [] k = "item" ->
                [NoParse EXCEPT !.op = "a", !.target = cfg.actionId, !.origin = inp.menuId,
                                !.payload = MeantPayload(cfg, TRUE)]
          [] k = "prev" ->
                [NoParse EXCEPT !.op = "p", !.target = inp.menuId, !.listIdx = b.src.i,
                                !.page = PageGet(inp.ps, pageKey(ChatId, inp.menuId, b.src.i)) - 1]
          [] k = "next" ->
                [NoParse EXCEPT !.op = "p", !.target = inp.menuId, !.listIdx = b.src.i,
                                !.page = PageGet(inp.ps, pageKey(ChatId, inp.menuId, b.src.i)) + 1]
          [] k = "info" -> [NoParse EXCEPT !.op = "_"]
          [] k = "refresh" -> [NoParse EXCEPT !.op = "r", !.target = inp.menuId]
          [] k = "back" -> [NoParse EXCEPT !.op = "n", !.target = inp.backToMenuId]

\* C3: parsing a token that buildKeyboard produced yields the operation, target
\* id, origin id and payload (value type included, absence included) that were
\* encoded into it.
RoundTripClaim == phase = "pressed" => pressed.dec = Encoded(pressed.btn)

\* The same round trip for the tokens that carry no payload, or a numeric id, or
\* an object that is not {id: ...}
RoundTripOther ==
    (phase = "pressed" /\ ~(Encoded(pressed.btn).payload.t = "obj"
                            /\ Encoded(pressed.btn).payload.k = <<"i", "d">>
                            /\ Encoded(pressed.btn).payload.v.t = "str"))
        => pressed.dec = Encoded(pressed.btn)

\* The layout holds exactly one list, which has a render callback
OneList == Len(ListEls(inp.layout)) = 1 /\ ListEls(inp.layout)[1].cfg.hasRender

TheList == ListEls(inp.layout)[1].cfg
ShownPage == PageGet(inp.ps, pageKey(ChatId, inp.menuId, 0))
NumItems == Len(TheList.items)

\* ceil(N / P), as the least t with t * P >= N
NumPages == CHOOSE t \in 0..NumItems :
                t * TheList.itemsPerPage >= NumItems
                /\ \A u \in 0..(t - 1) : u * TheList.itemsPerPage < NumItems

ButtonsOfKind(kind) == SelectSeq(Flatten(out.keyboard), LAMBDA b : b.src.k = kind)

\* C7: a list of N items with itemsPerPage P > 0 rendered at a valid page k has
\* ceil(N/P) pages, shows exactly the items k*P .. min(N, (k+1)*P) - 1 in order,
\* shows pagination controls only when there is more than one page, a previous
\* control iff k > 0 and a next control iff k is not the last page.
PaginationCorrect ==
    (phase = "out" /\ OneList) =>
        LET k == ShownPage
            P == TheList.itemsPerPage
            first == k * P
            last == Min(NumItems, (k + 1) * P) - 1
            shown == ButtonsOfKind("item")
        IN  /\ TotalPages(TheList) = NumPages
            /\ Len(shown) = last - first + 1
            /\ \A j \in 1..Len(shown) : shown[j].src.i = TheList.items[first + j]
            /\ (k = 0 => Len(shown) = Min(P, NumItems))
            /\ (NumPages > 0 /\ k = NumPages - 1 => Len(shown) = NumItems - P * k)
            /\ (Len(ButtonsOfKind("info")) = 1) = (NumPages > 1)
            /\ (NumPages <= 1 => Len(ButtonsOfKind("prev")) + Len(ButtonsOfKind("next")) = 0)
            /\ (NumPages > 1 => (Len(ButtonsOfKind("prev")) = 1) = (k > 0))
            /\ (NumPages > 1 => (Len(ButtonsOfKind("next")) = 1) = (k < NumPages - 1))
            /\ Len(ButtonsOfKind("prev")) <= 1 /\ Len(ButtonsOfKind("next")) <= 1

\* The last of at least three pages, shorter than a full page, has been rendered
PaginationWitness ==
    /\ phase = "out" /\ OneList
    /\ NumPages >= 3 /\ ShownPage = NumPages - 1
    /\ Len(ButtonsOfKind("item")) < TheList.itemsPerPage
    /\ Len(ButtonsOfKind("prev")) = 1 /\ Len(ButtonsOfKind("next")) = 0

\* C8: a button whose guard evaluates to false is absent from the rendered
\* keyboard and gets no token, whether it is declared in the layout or returned
\* by a list's render callback.
GuardHidingClaim ==
    phase = "out" =>
        \A b \in AllButtons(out.keyboard) :
            b.src.k \in {"button", "item"} => CfgOf(b).guard # "fail"

\* The part of C8 about the buttons declared in the layout
GuardHidingDeclared ==
    phase = "out" =>
        \A b \in AllButtons(out.keyboard) : b.src.k = "button" => CfgOf(b).guard # "fail"

\* Every element of the layout that makes buttons is a declared button
OnlyButtons == \A i \in 1..Len(inp.layout.elements) : inp.layout.elements[i].kind = "button"

\* The declared buttons that pass their guard, in declaration order
Visible == SelectSeq(ButtonEls(inp.layout), LAMBDA e : e.cfg.guard # "fail")

RowLayoutHiddenWitness ==
    /\ phase = "out" /\ OnlyButtons
    /\ inp.layout.maxPerRow = 2
    /\ Len(ButtonEls(inp.layout)) = 3 /\ Len(Visible) = 2
    /\ ButtonEls(inp.layout)[2].cfg.guard = "fail"
    /\ Len(Grid(out.keyboard)) = 1

-----------------------------------------------------------------------------
(* Menu collection and navigation: engine.ts collectMenuTree, installMenu,      *)
(* renderMenu and the n: / p: / r: / t: branches of the callback handler        *)

RootId == <<"m", "r">>
MenuA == <<"m", "a">>
MenuB == <<"m", "b">>
MenuIds == {RootId, MenuA, MenuB}

NoDup(l) == \A i, j \in 1..Len(l) : i # j => l[i] # l[j]

\* The submenu buttons a menu can declare: each other menu at most once, in any order
SubLists(id) ==
    {l \in UNION {[1..n -> MenuIds \ {id}] : n \in 0..Cardinality(MenuIds \ {id})} : NoDup(l)}

NavButton(target) ==
    [kind |-> "button", cfg |-> [NewButton(<<"g">> \o target) EXCEPT !.submenu = target]]

TabButton ==
    [kind |-> "button",
     cfg |-> [NewButton(<<"T">>) EXCEPT !.action = "fn", !.tabText = <<"t", "a", "b">>]]

\* The builder of a menu: its submenu buttons and a refresh button; menu B has a
\* tab button and a list of two one-item pages as well
MenuLayout(id, subs) ==
    [maxPerRow |-> 0,
     elements |-> [i \in 1..Len(subs) |-> NavButton(subs[i])]
                  \o (IF id = MenuB THEN <<TabButton, ListEl(2, 1, 1, "none", TRUE)>> ELSE <<>>)
                  \o <<RefreshEl>>]

MenuGraphs ==
    {[id \in MenuIds |-> MenuLayout(id, g[id])] :
        g \in {f \in [MenuIds -> UNION {SubLists(id) : id \in MenuIds}] :
                  \A id \in MenuIds : f[id] \in SubLists(id)}}

\* new LayoutBuilder()
NewLayout == [maxPerRow |-> 0, elements |-> <<>>]

RECURSIVE collectMenuTree(_, _, _, _)
RECURSIVE CollectElements(_, _, _, _, _)
\* A scan that runs the builder of a menu before it looks the menu up
collectMenuTreeMut(d, ref, acc, parentId) ==
    IF ref \in DOMAIN acc.menus THEN [acc EXCEPT !.built = Append(@, ref)]
    ELSE CollectElements(d, ref, d[ref].elements, 0,
            [acc EXCEPT !.menus = (ref :> [layout |-> d[ref], parent |-> parentId]) @@ @,
                        !.built = Append(@, ref)])

\* engine.ts 67-132; d is the created menus; acc is the two maps, menus and
\* actions, with the id each inline handler was registered under (by menu and
\* button index) and the menus whose builder was run, in order
collectMenuTree(d, ref, acc, parentId) ==
    IF ref \in DOMAIN acc.menus THEN acc
    ELSE CollectElements(d, ref, d[ref].elements, 0,
            [acc EXCEPT !.menus = (ref :> [layout |-> d[ref], parent |-> parentId]) @@ @,
                        !.built = Append(@, ref)])

\* The loop of collectMenuTree over the elements of menu id
CollectElements(d, id, els, btnIndex, acc) ==
    IF els = <<>> THEN acc
    ELSE LET el == Head(els) IN
         CASE el.kind = "button" ->
                LET cfg == el.cfg
                    a1 == IF isActionRef(cfg)
                          THEN [acc EXCEPT !.actions = @ \cup {cfg.actionId}]
                          ELSE IF cfg.inlineHandler
                          THEN [acc EXCEPT !.actions = @ \cup {resolveStableId(id, cfg, btnIndex)},
                                           !.ids = (<<id, btnIndex>> :>
                                                       resolveStableId(id, cfg, btnIndex)) @@ @]
                          ELSE acc
                    a2 == IF TruthyS(cfg.submenu)
                          THEN collectMenuTree(d, cfg.submenu, a1, id)
                          ELSE a1
                IN  CollectElements(d, id, Tail(els), btnIndex + 1, a2)
           [] el.kind = "list" ->
                LET lc == el.cfg
                    a1 == IF lc.hasRender /\ Len(lc.items) > 0
                             /\ isActionRef(lc.renderFn[lc.items[1]])
                          THEN [acc EXCEPT !.actions = @ \cup {lc.renderFn[lc.items[1]].actionId}]
                          ELSE acc
                IN  CollectElements(d, id, Tail(els), btnIndex, a1)
           [] OTHER -> CollectElements(d, id, Tail(els), btnIndex, acc)

\* engine.ts 342-343: the two maps before the scan
NewRegistry == [menus |-> EmptyMap, actions |-> {}, ids |-> EmptyMap, built |-> <<>>]

\* engine.ts 342-364: the tree under the root, then the menus and actions the
\* scan missed, the menus without a parent
InstallCollectMut(d, globalActions) ==
    LET c == collectMenuTree(d, RootId, NewRegistry, UndefS)
    IN  [menus |-> [id \in DOMAIN d |-> [layout |-> NewLayout, parent |-> UndefS]] @@ c.menus,
         actions |-> c.actions \cup globalActions, ids |-> c.ids, built |-> c.built]
InstallCollect(d, globalActions) ==
    LET c == collectMenuTree(d, RootId, NewRegistry, UndefS)
    IN  [menus |-> c.menus @@ [id \in DOMAIN d |-> [layout |-> NewLayout, parent |-> UndefS]],
         actions |-> c.actions \cup globalActions, ids |-> c.ids, built |-> c.built]

\* The buttons of a layout that carry the default flag, by their index among the
\* buttons
DefaultFlags(elements) ==
    {ButtonsBefore(elements, i) - 1 :
        i \in {j \in 1..Len(elements) : elements[j].kind = "button" /\ elements[j].cfg.isDefault}}

renderMenuMut(menuId, prebuilt, usePrebuilt, ps, via) ==
    LET id == IF menuId \in DOMAIN menus THEN menuId ELSE RootId
        layout == IF menuId \in DOMAIN menus /\ usePrebuilt THEN prebuilt ELSE defs[id]
        r == buildKeyboard(id, layout, ChatId, IF id = RootId THEN UndefS ELSE RootId, UndefP, ps)
    IN  [menuId |-> id, text |-> r.text, keyboard |-> r.keyboard, via |-> via,
         ran |-> r.ran, defaults |-> DefaultFlags(layout.elements)]

renderMenuAccum(menuId, prebuilt, usePrebuilt, ps, via) ==
    LET id == IF menuId \in DOMAIN menus THEN menuId ELSE RootId
        layout == IF menuId \in DOMAIN menus /\ usePrebuilt THEN prebuilt ELSE defs[id]
        kept == IF screen.menuId = id
                THEN [layout EXCEPT !.elements = @ \o <<TextEl(<<"+">>)>>] ELSE layout
        r == buildKeyboard(id, kept, ChatId, menus[id].parent, UndefP, ps)
    IN  [menuId |-> id, text |-> r.text, keyboard |-> r.keyboard, via |-> via,
         ran |-> r.ran, defaults |-> DefaultFlags(layout.elements)]

\* renderMenu(menuId, ctx, chatId, edit, prebuiltLayout): what it puts in the chat
renderMenu(menuId, prebuilt, usePrebuilt, ps, via) ==
    LET id == IF menuId \in DOMAIN menus THEN menuId ELSE RootId
        layout == IF menuId \in DOMAIN menus /\ usePrebuilt THEN prebuilt ELSE defs[id]
        r == buildKeyboard(id, layout, ChatId, menus[id].parent, UndefP, ps)
    IN  [menuId |-> id, text |-> r.text, keyboard |-> r.keyboard, via |-> via,
         ran |-> r.ran, defaults |-> DefaultFlags(layout.elements)]

\* What the engine did with the last update: its token or trigger, the menu or
\* action it names, whether the registry has none of that id, whether a menu was
\* rendered, a conversation entered, an error left the handler, and the callback
\* data of the update
NoDispatch == [op |-> "none", target |-> UndefS, missing |-> FALSE, rendered |-> FALSE,
               entered |-> FALSE, error |-> FALSE, data |-> UndefS]

Dispatch(op, target, missing, rendered, entered, data) ==
    /\ pressed' = [op |-> op, target |-> target, missing |-> missing, rendered |-> rendered,
                   entered |-> entered, error |-> FALSE, data |-> data]
    /\ UNCHANGED <<inp, out, phase>>

InitNav ==
    /\ defs \in MenuGraphs
    /\ menus = InstallCollect(defs, {ActA}).menus
    /\ actions = InstallCollect(defs, {ActA}).actions
    /\ pageState = EmptyMap
    /\ screen = NoScreen
    /\ inp = 0 /\ out = 0 /\ phase = "nav" /\ pressed = NoDispatch
    /\ ConvIdle

\* bot.command("start"): engine.ts 761-768
Start ==
    /\ screen' = renderMenu(RootId, NewLayout, FALSE, pageState, "start")
    /\ Dispatch("start", RootId, FALSE, TRUE, FALSE, UndefS)
    /\ UNCHANGED <<defs, menus, actions, pageState, cvars>>

\* A command, word or regexp trigger of a menu of the registry: showMenu
\* (engine.ts 639-662)
MenuTrigger ==
    \E id \in DOMAIN menus :
        /\ screen' = renderMenu(id, NewLayout, FALSE, pageState, "trigger")
        /\ Dispatch("trigger", id, FALSE, TRUE, FALSE, UndefS)
        /\ UNCHANGED <<defs, menus, actions, pageState, cvars>>

\* A trigger of an action of the registry: enterAction (engine.ts 598-636) enters
\* the conversation registered for it (545-550)
ActionTrigger ==
    \E id \in actions :
        /\ Dispatch("enter", id, FALSE, FALSE, TRUE, UndefS)
        /\ UNCHANGED <<defs, menus, actions, pageState, screen, cvars>>

Gone == <<"z", "z">>

\* Tokens of messages an earlier deployment sent, for a menu and an action the
\* registry no longer has, and for ActA
StaleTokens ==
    { <<"n", ":">> \o Gone, <<"r", ":">> \o Gone,
      <<"p", ":">> \o Gone \o <<":", "0", ":", "1">>,
      <<"t", ":">> \o Gone \o <<":", "T">>,
      <<"a", ":">> \o Gone \o <<"/">> \o RootId \o <<":", "1">>,
      <<"a", ":">> \o ActA \o <<"/">> \o RootId \o <<":", "1">>,
      <<"a", "i", ":">> \o Gone \o <<"_", "0", "/">> \o Gone \o <<":", "1">>,
      <<"a", "i", ":">> \o ActA \o <<"_", "0", "/">> \o ActA \o <<":", "1">> }

\* The callback tokens a user can press: those of the menu message and, in a chat
\* that has them, those of the older messages
Pressable ==
    {b.data : b \in {x \in AllButtons(screen.keyboard) : x.data # UndefS}}
    \cup (IF phase = "dispatch" THEN StaleTokens ELSE {})

\* callback_query:data, branch n: (engine.ts 789-795)
HandleNavigate ==
    \E data \in Pressable :
    \E t \in {DecodeToken(data)} :
        /\ t.op = "n"
        /\ screen' = renderMenu(t.target, NewLayout, FALSE, pageState, "n")
        /\ Dispatch("n", t.target, t.target \notin DOMAIN menus, TRUE, FALSE, data)
        /\ UNCHANGED <<defs, menus, actions, pageState, cvars>>

\* callback_query:data, branch p: (engine.ts 797-808)
HandleChangePage ==
    \E data \in Pressable :
    \E t \in {DecodeToken(data)} :
        /\ t.op = "p"
        /\ \E ps \in {(pageKey(ChatId, t.target, t.listIdx) :> t.page) @@ pageState} :
              /\ pageState' = ps
              /\ screen' = renderMenu(t.target, NewLayout, FALSE, ps, "p")
        /\ Dispatch("p", t.target, t.target \notin DOMAIN menus, TRUE, FALSE, data)
        /\ UNCHANGED <<defs, menus, actions, cvars>>

\* A refresh that shows the first page of the lists of the menu again
HandleRefreshMut ==
    \E data \in Pressable :
    \E t \in {DecodeToken(data)} :
        /\ t.op = "r"
        /\ \E ps \in {[k \in DOMAIN pageState \ {pageKey(ChatId, t.target, 0)} |-> pageState[k]]} :
              /\ pageState' = ps
              /\ screen' = renderMenu(t.target, NewLayout, FALSE, ps, "r")
        /\ Dispatch("r", t.target, t.target \notin DOMAIN menus, TRUE, FALSE, data)
        /\ UNCHANGED <<defs, menus, actions, cvars>>

\* callback_query:data, branch r: (engine.ts 810-816)
HandleRefresh ==
    \E data \in Pressable :
    \E t \in {DecodeToken(data)} :
        /\ t.op = "r"
        /\ screen' = renderMenu(t.target, NewLayout, FALSE, pageState, "r")
        /\ Dispatch("r", t.target, t.target \notin DOMAIN menus, TRUE, FALSE, data)
        /\ UNCHANGED <<defs, menus, actions, pageState, cvars>>

\* engine.ts 827-838: the pressed tab becomes the default one; the id of a button
\* without an explicit id is its label if that is a string, else ""
MarkTab(layout, tabBtnId) ==
    [layout EXCEPT !.elements =
        [i \in 1..Len(layout.elements) |->
            LET el == layout.elements[i] IN
            IF el.kind # "button" THEN el
            ELSE LET btnId == IF el.cfg.buttonId # UndefS THEN el.cfg.buttonId
                              ELSE IF el.cfg.dynamic THEN <<>> ELSE el.cfg.label
                 IN  IF btnId = tabBtnId THEN [el EXCEPT !.cfg.isDefault = TRUE]
                     ELSE IF el.cfg.isDefault THEN [el EXCEPT !.cfg.isDefault = FALSE]
                     ELSE el]]

\* callback_query:data, branch t: (engine.ts 818-845); without the menu it returns
\* at once (823)
HandleSwitchTab ==
    \E data \in Pressable :
    \E t \in {DecodeToken(data)} :
        /\ t.op = "t"
        /\ IF t.target \in DOMAIN menus
           THEN /\ screen' = renderMenu(t.target, MarkTab(defs[t.target], t.arg), TRUE,
                                        pageState, "t")
                /\ Dispatch("t", t.target, FALSE, TRUE, FALSE, data)
           ELSE /\ screen' = screen
                /\ Dispatch("t", t.target, TRUE, FALSE, FALSE, data)
        /\ UNCHANGED <<defs, menus, actions, pageState, cvars>>

\* The a: pre-check (engine.ts 556-593): enter, which fails for an id without a
\* registered conversation; the catch logs, answers and sends the root menu
HandleAction ==
    \E data \in Pressable :
    \E t \in {DecodeToken(data)} :
        /\ t.op = "a"
        /\ IF t.target \in actions
           THEN /\ screen' = screen
                /\ Dispatch("a", t.target, FALSE, FALSE, TRUE, data)
           ELSE /\ screen' = renderMenu(RootId, NewLayout, FALSE, pageState, "a")
                /\ Dispatch("a", t.target, TRUE, TRUE, FALSE, data)
        /\ UNCHANGED <<defs, menus, actions, pageState, cvars>>

\* callback_query:data, branch ai: (engine.ts 847-956): without the action the
\* press is answered "Action expired or not found."; with it the handler of the
\* action is run to find the button, which the handler of ActA does not declare,
\* and the press is answered
HandleInline ==
    \E data \in Pressable :
    \E t \in {DecodeToken(data)} :
        /\ t.op = "ai"
        /\ screen' = screen
        /\ Dispatch("ai", t.origin, t.origin \notin actions, FALSE, FALSE, data)
        /\ UNCHANGED <<defs, menus, actions, pageState, cvars>>

NextNav ==
    \/ Start \/ MenuTrigger \/ ActionTrigger
    \/ HandleNavigate \/ HandleChangePage \/ HandleRefresh \/ HandleSwitchTab

SpecNav == InitNav /\ [][NextNav]_vars

\* The applications of the chats with older messages: menu B declares no submenu,
\* menu A at most menu B
DispatchGraphs ==
    LET SubsOf(layout) ==
            {layout.elements[i].cfg.submenu :
                i \in {j \in 1..Len(layout.elements) : layout.elements[j].kind = "button"}}
            \ {UndefS}
    IN  {g \in MenuGraphs : SubsOf(g[MenuB]) = {} /\ SubsOf(g[MenuA]) \subseteq {MenuB}}

InitDispatch ==
    /\ defs \in DispatchGraphs
    /\ menus = InstallCollect(defs, {ActA}).menus
    /\ actions = InstallCollect(defs, {ActA}).actions
    /\ pageState = EmptyMap
    /\ screen = NoScreen
    /\ inp = 0 /\ out = 0 /\ phase = "dispatch" /\ pressed = NoDispatch
    /\ ConvIdle

NextDispatch == NextNav \/ HandleAction \/ HandleInline

SpecDispatch == InitDispatch /\ [][NextDispatch]_vars

-----------------------------------------------------------------------------
(* Properties of navigation (SpecNav) *)

\* The menus that menu id has a submenu button for
Sub(id) == {defs[id].elements[i].cfg.submenu :
               i \in {j \in 1..Len(defs[id].elements) :
                         defs[id].elements[j].kind = "button"
                         /\ defs[id].elements[j].cfg.submenu # UndefS}}

\* The place of the button to menu x among the elements of menu id
Pos(id, x) == CHOOSE i \in 1..Len(defs[id].elements) :
                  defs[id].elements[i].kind = "button" /\ defs[id].elements[i].cfg.submenu = x

\* The parent through which the depth-first scan from the root first discovers
\* menu x; UndefS for the root and for a menu the scan does not reach
FirstParent(x) ==
    IF x = RootId THEN UndefS
    ELSE LET y == CHOOSE m \in MenuIds : m # RootId /\ m # x
         IN  IF y \in Sub(RootId) /\ x \in Sub(y)
                /\ (x \notin Sub(RootId) \/ Pos(RootId, y) < Pos(RootId, x))
             THEN y
             ELSE IF x \in Sub(RootId) THEN RootId ELSE UndefS

BackButtons == {b \in AllButtons(screen.keyboard) : b.src.k = "back"}
ButtonsOfBack == SelectSeq(Flatten(screen.keyboard), LAMBDA b : b.src.k = "back")

\* Menu B is reachable only along root -> A -> B
OnlyViaA == MenuA \in Sub(RootId) /\ MenuB \in Sub(MenuA) /\ MenuB \notin Sub(RootId)

\* C9: the Back control of a rendered menu targets the parent through which the
\* menu was first discovered and is a navigate token; a menu B reached only via
\* root -> A -> B has exactly one Back control, to A, in every render, whichever
\* token caused it; the root has none.
BackCorrect ==
    screen.menuId # UndefS =>
        /\ \A b \in BackButtons :
              /\ SliceJS(b.data, 0, 2) = <<"n", ":">>
              /\ DecodeToken(b.data).op = "n"
              /\ DecodeToken(b.data).target = FirstParent(screen.menuId)
        /\ Len(ButtonsOfBack) = (IF FirstParent(screen.menuId) = UndefS THEN 0 ELSE 1)
        /\ (screen.menuId = MenuB /\ OnlyViaA) =>
              /\ Len(ButtonsOfBack) = 1
              /\ ButtonsOfBack[1].data = <<"n", ":">> \o MenuA
        /\ screen.menuId = RootId => BackButtons = {}

\* B, reached only via root -> A -> B, has been rendered again by a change of page
BackWitness ==
    /\ screen.menuId = MenuB /\ OnlyViaA
    /\ screen.via = "p"
    /\ PageGet(pageState, pageKey(ChatId, MenuB, 0)) = 1
    /\ \E b \in BackButtons : b.data = <<"n", ":">> \o MenuA

\* ... and by a switch of tab, a refresh and a navigation
BackWitnessTab == screen.menuId = MenuB /\ OnlyViaA /\ screen.via = "t"
BackWitnessRefresh == screen.menuId = MenuB /\ OnlyViaA /\ screen.via = "r"
BackWitnessNavigate == screen.menuId = MenuB /\ OnlyViaA /\ screen.via = "n"

-----------------------------------------------------------------------------
(* Conversations: engine.ts convBuilder, the a: pre-check, enterAction and the  *)
(* text triggers; conversation.ts createConversationHelper.                     *)
(*                                                                              *)
(* The host is the conversations plugin whose active() yields a record of the   *)
(* active conversations (engine.ts 763-764) and whose external() hands the      *)
(* callback the context of the update being handled (engine.ts 465).  A waiting *)
(* instance is re-run on every update of the chat: the builder gets the context *)
(* of the update that entered it and a new conversation object, and the calls   *)
(* it made before the wait answer from the log of the instance, so that the     *)
(* values of the run before the wait are those of the first run.  An update the *)
(* wait does not take is dropped; an error of the builder ends the instance and *)
(* goes on to the caller.                                                       *)

CancelData == <<"c", "a", "n", "c", "e", "l", "_", "c", "o", "n", "v", "e", "r", "s", "a",
                "t", "i", "o", "n">>
AskPrefix == <<"a", "s", "k", ":">>
AskCancel == AskPrefix \o <<"_", "_", "c", "a", "n", "c", "e", "l", "_", "_">>
AskYes == AskPrefix \o <<"y">>

\* The steps of a handler: conversation.ask(q, {type, validate}),
\* conversation.ask(q, kb => ...), conversation.form(fields), conversation.say(text),
\* navigate(menu), throw new Error(...), conversation.delete()
AskStep(type) == [op |-> "ask", type |-> type, validate |-> "none", fields |-> <<>>, menu |-> UndefS]
AskPositive == [AskStep("number") EXCEPT !.validate = "positive"]
FormStep(fields) == [AskStep("none") EXCEPT !.op = "form", !.fields = fields]
SayStep == [AskStep("none") EXCEPT !.op = "say"]
NavStep(menu) == [AskStep("none") EXCEPT !.op = "navigate", !.menu = menu]
ThrowStep == [AskStep("none") EXCEPT !.op = "throw"]
DeleteStep == [AskStep("none") EXCEPT !.op = "delete"]

\* The handlers action ActA is given, one per behaviour
Scripts ==
    { <<SayStep>>,
      <<AskStep("text"), SayStep>>,
      <<AskPositive>>,
      <<AskStep("photo"), AskStep("choice")>>,
      <<NavStep(MenuA), SayStep>>,
      <<FormStep(<<"text", "number">>), SayStep>>,
      <<ThrowStep>>,
      <<AskStep("text"), ThrowStep>>,
      <<AskStep("text"), DeleteStep, SayStep, AskStep("text")>> }

\* The application: the root menu opens menu A, starts ActA with {id: 1} and has a
\* refresh button; menu A shows an image and starts ActA with {id: 2}
ActionButton(label, payload) ==
    [kind |-> "button",
     cfg |-> [NewButton(label) EXCEPT !.action = "ref", !.actionId = ActA, !.payload = payload]]

\* layout.image(url)
ImageEl(url) == [kind |-> "image", url |-> url]

AppMenus ==
    (RootId :> [maxPerRow |-> 0,
                elements |-> <<NavButton(MenuA), ActionButton(<<"x">>, IdObj(Num(1))),
                               RefreshEl>>])
    @@ (MenuA :> [maxPerRow |-> 0,
                  elements |-> <<ImageEl(<<"u">>), ActionButton(<<"y">>, IdObj(Num(2)))>>])

\* ActA.command("go").regexp(/^i(\d+)$/)
CommandGo == <<"/", "g", "o">>
CommandStart == <<"/", "s", "t", "a", "r", "t">>

\* text.match(/^i(\d+)$/)[1], UndefS without a match
RegexpCapture(text) ==
    IF text # UndefS /\ Len(text) >= 2 /\ text[1] = "i"
       /\ \A k \in 2..Len(text) : IsDigit(text[k])
    THEN SliceFrom(text, 1) ELSE UndefS

\* { id: parseInt(val, 10) || val } (engine.ts 421, 428, 623)
CapturePayload(val) ==
    IdObj(IF ParseInt(val) # NaN /\ ParseInt(val) # 0 THEN Num(ParseInt(val)) ELSE StrV(val))

\* A message of the bot: a menu, a prompt or a text of a conversation; photo: it
\* is a photo with a caption; old: the transport no longer edits or deletes it
Msg(kind, menuId, text, tokens, photo) ==
    [kind |-> kind, menuId |-> menuId, text |-> text, tokens |-> tokens, photo |-> photo,
     old |-> FALSE]

Deleted == Msg("deleted", UndefS, <<>>, <<>>, FALSE)
Exists(ms, id) == id \in 1..Len(ms) /\ ms[id].kind # "deleted"

\* deleteMessage, each call of which is in a try with an empty catch
DeleteMsg(ms, id) == IF Exists(ms, id) /\ ~ms[id].old THEN [ms EXCEPT ![id] = Deleted] ELSE ms

\* The chat is within the bounds
Room(ms) ==
    /\ Len(ms) <= MaxSent
    /\ Cardinality({id \in 1..Len(ms) : Exists(ms, id)}) <= MaxMsgs

\* What the transport answers to editMessageText / editMessageMedia of message id
\* with content c: done, "message is not modified", or another error (the message
\* is gone or too old, or a photo is edited as text or a text as a photo)
EditOutcome(ms, id, c) ==
    IF ~Exists(ms, id) \/ ms[id].old \/ ms[id].photo # c.photo THEN "fail"
    ELSE IF ms[id].text = c.text /\ ms[id].tokens = c.tokens THEN "notmod"
    ELSE "ok"

\* The question of step i (field f of a form)
Question(i, f) == <<"Q">> \o NumToStr(i) \o (IF f = 0 THEN <<>> ELSE <<".">> \o NumToStr(f))

\* The error texts of ask: the input is of the wrong kind, validate refused it
ErrorText(err) == IF err = "invalid" THEN <<"V">> ELSE <<"K">>

\* The prompt of an ask: the question, after an error `${err}\n\n${translatedQuestion}`
\* (conversation.ts 255, 265, 287, 297, 302, 310), and the Cancel button
Prompt(type, i, f, err) ==
    Msg("prompt", UndefS,
        IF err = "none" THEN Question(i, f) ELSE ErrorText(err) \o <<" ">> \o Question(i, f),
        IF type = "choice" THEN <<AskYes, AskCancel>> ELSE <<CancelData>>, FALSE)

SayMsg(i) == Msg("say", UndefS, <<"S">> \o NumToStr(i), <<>>, FALSE)

\* conversation.say(text, kb => kb.button("n")): a say with a plain button, whose
\* token is ask:<id or text> (conversation.ts 372-374)
AskNo == AskPrefix \o <<"n">>
SayButtons == [AskStep("choice") EXCEPT !.op = "say"]

\* What the say of step i shows
SayContent(step, i) ==
    IF step.type = "choice" THEN [SayMsg(i) EXCEPT !.tokens = <<AskNo>>] ELSE SayMsg(i)

\* The callback data of the buttons of a keyboard, row by row
TokensOf(kb) ==
    CHOOSE t \in {[k \in 1..Len(bs) |-> bs[k].data] :
                    bs \in {SelectSeq(Flatten(kb), LAMBDA b : b.data # UndefS)}} : TRUE

\* What renderMenu draws for a menu of the map with the pages ps: the result of
\* its buildKeyboard
MenuMsgAt(id, ps) ==
    CHOOSE m \in {Msg("menu", id, r.text, TokensOf(r.keyboard), r.imageUrl # UndefS) :
                    r \in {buildKeyboard(id, defs[id], ChatId, menus[id].parent, UndefP,
                                         ps)}} : TRUE

MenuMsg(id) == MenuMsgAt(id, pageState)

\* ... for each menu of the map
RenderedMenus == [id \in DOMAIN menus |-> MenuMsg(id)]

\* What a call of internalRenderLayout did: how, on which message, and the chat
\* before and after it
Rendered(ms, ms1, how, content, edit, messageToEdit, targetMessageId) ==
    [msgs |-> ms1,
     info |-> [how |-> how, edit |-> edit, prev |-> messageToEdit, target |-> targetMessageId,
               prevPhoto |-> Exists(ms, messageToEdit) /\ ms[messageToEdit].photo,
               prevOld |-> ~Exists(ms, messageToEdit) \/ ms[messageToEdit].old,
               newPhoto |-> content.photo, before |-> Len(ms), after |-> Len(ms1),
               prevKept |-> Exists(ms1, messageToEdit)]]

\* internalRenderLayout (engine.ts 709-758): content.photo is !!imageUrl
internalRenderLayout(ms, content, edit, messageToEdit, isPhotoMessage, targetMessageId) ==
    LET R(ms1, how) == Rendered(ms, ms1, how, content, edit, messageToEdit, targetMessageId)
        Edit == \* an edit call and the catch of its failure (engine.ts 745-750)
            LET res == EditOutcome(ms, messageToEdit, content)
            IN  IF res = "ok" THEN R([ms EXCEPT ![messageToEdit] = content], "edited")
                ELSE IF targetMessageId = 0
                THEN R(Append(ms, content),
                       IF res = "notmod" THEN "notmod-sent" ELSE "failed-sent")
                ELSE R(ms, IF res = "notmod" THEN "notmod-silent" ELSE "failed-silent")
        Replace == R(Append(DeleteMsg(ms, messageToEdit), content), "replaced")
    IN  IF edit /\ messageToEdit # 0
        THEN IF content.photo
             THEN IF isPhotoMessage /\ targetMessageId = 0 THEN Edit ELSE Replace
             ELSE IF isPhotoMessage /\ targetMessageId = 0 THEN Replace ELSE Edit
        ELSE R(Append(ms, content), "sent")

\* renderMenu (engine.ts 666-706) on the messages of the chat; ctx is the update,
\* rm what buildKeyboard makes of each menu
renderMenuMsg(ms, rm, menuId, ctx, edit, targetMessageId) ==
    IF menuId \notin DOMAIN menus
    THEN internalRenderLayout(IF edit THEN DeleteMsg(ms, ctx.cbMsg) ELSE ms, rm[RootId], FALSE,
                              ctx.cbMsg, ctx.cbPhoto, 0)
    ELSE internalRenderLayout(ms, rm[menuId], edit,
                              IF targetMessageId # 0 THEN targetMessageId ELSE ctx.cbMsg,
                              ctx.cbPhoto, targetMessageId)

\* An update of the chat: a press of a button of message cbMsg (a photo or not), a
\* text, a photo
Update(cbMsg, cbPhoto, data, text, photo) ==
    [cbMsg |-> cbMsg, cbPhoto |-> cbPhoto, data |-> data, text |-> text, photo |-> photo]

InnerCtxMut(u, sess) == [u |-> u, payload |-> sess.payload]

\* The context the builder is given for an update: the plugin makes it from the
\* update alone, so it has no session and no match; sess is the chat's session
InnerCtx(u, sess) == [u |-> u, payload |-> UndefP]

\* The conversation object of a run: it is made anew for each run and has no
\* session member until the builder or the helper assigns one (engine.ts 457-458,
\* conversation.ts 151)
NewConversation == [payload |-> UndefP, lastMsgId |-> 0]

\* A cascade without the stages of the regexp
ResolvePayloadMut(conv, ctx) ==
    IF conv.payload # UndefP THEN conv.payload
    ELSE IF ctx.payload # UndefP THEN ctx.payload
    ELSE IF ctx.u.data # UndefS /\ StartsWith(ctx.u.data, <<"a", ":">>)
    THEN DecodeCallbackPayload(ctx.u.data)
    ELSE UndefP

\* The payload cascade of convBuilder (engine.ts 408-448): conversation.session,
\* ctx.session, the regexp of the text, the a: token
ResolvePayload(conv, ctx) ==
    IF conv.payload # UndefP THEN conv.payload
    ELSE IF ctx.payload # UndefP THEN ctx.payload
    ELSE IF RegexpCapture(ctx.u.text) # UndefS THEN CapturePayload(RegexpCapture(ctx.u.text))
    ELSE IF ctx.u.data # UndefS /\ StartsWith(ctx.u.data, <<"a", ":">>)
    THEN DecodeCallbackPayload(ctx.u.data)
    ELSE UndefP

\* engine.ts 451-460: the payload found is persisted unless one is persisted already
PersistPayload(conv, payload) ==
    IF payload # UndefP /\ conv.payload = UndefP THEN [conv EXCEPT !.payload = payload] ELSE conv

\* payload || {} (engine.ts 500)
HandlerPayload(payload) == IF payload = UndefP THEN EmptyObj ELSE payload

NewRunMut(conv, ms, ctx) ==
    [conv |-> conv, msgs |-> ms,
     local |-> IF Len(ms) > 0 THEN Len(ms) ELSE ctx.u.cbMsg,
     sig |-> "none", after |-> FALSE, touched |-> {}, asked |-> <<>>, vals |-> <<>>,
     thrown |-> FALSE, value |-> UndefP, form |-> <<>>, formDone |-> "none",
     prompt |-> "none", render |-> NoRender, log |-> <<>>]

\* The state of a run of the builder when the handler is called: the conversation
\* object, the messages, the helper's lastMessageId (conversation.ts 125), the
\* signal the run has seen (cancel pressed, navigate called), whether a step ran
\* after it, the messages editOrReply edited, the questions asked, the values of
\* the form being filled, what the last editOrReply and renderMenu did, and what
\* each editOrReply and each delete of the run did
NewRun(conv, ms, ctx) ==
    [conv |-> conv, msgs |-> ms,
     local |-> IF conv.lastMsgId # 0 THEN conv.lastMsgId ELSE ctx.u.cbMsg,
     sig |-> "none", after |-> FALSE, touched |-> {}, asked |-> <<>>, vals |-> <<>>,
     thrown |-> FALSE, value |-> UndefP, form |-> <<>>, formDone |-> "none",
     prompt |-> "none", render |-> NoRender, log |-> <<>>]

\* The entry of the log for an editOrReply or a delete of message id that left
\* the run in st
Logged(st, op, id) ==
    [st EXCEPT !.log = Append(@, [op |-> op, id |-> id, how |-> st.prompt, local |-> st.local,
                                  tracked |-> st.conv.lastMsgId])]

\* A helper that sends every prompt as a new message
editOrReplyMut(st, content) ==
    Logged([st EXCEPT !.msgs = Append(st.msgs, content), !.local = Len(st.msgs) + 1,
                      !.conv.lastMsgId = Len(st.msgs) + 1, !.prompt = "sent"],
           "prompt", st.local)

\* conversation.ts editOrReply (132-153)
editOrReply(st, content) ==
    LET res == IF st.local # 0 THEN EditOutcome(st.msgs, st.local, content) ELSE "none"
    IN  CASE res = "ok" ->
               Logged([st EXCEPT !.msgs[st.local] = content, !.touched = @ \cup {st.local},
                                 !.prompt = "edited"], "prompt", st.local)
          [] res = "notmod" ->
               Logged([st EXCEPT !.touched = @ \cup {st.local}, !.prompt = "notmod"],
                      "prompt", st.local)
          [] OTHER ->
               LET ms == IF res = "fail" THEN DeleteMsg(st.msgs, st.local) ELSE st.msgs
               IN  Logged([st EXCEPT !.msgs = Append(ms, content),
                                     !.local = Len(ms) + 1,
                                     !.conv.lastMsgId = Len(ms) + 1,
                                     !.prompt = IF res = "fail" THEN "resent" ELSE "sent"],
                          "prompt", st.local)

\* A delete that forgets the message in the helper alone
deletePromptMut(st) ==
    IF st.local # 0
    THEN Logged([st EXCEPT !.msgs = DeleteMsg(@, st.local), !.local = 0], "delete", st.local)
    ELSE st

\* conversation.ts deletePrompt (384-397)
deletePrompt(st) ==
    IF st.local # 0
    THEN Logged([st EXCEPT !.msgs = DeleteMsg(@, st.local), !.local = 0,
                           !.conv.lastMsgId = 0], "delete", st.local)
    ELSE st

\* navigate of convBuilder (engine.ts 462-476); c is the update being handled
navigate(st, rm, menu, c, sig) ==
    LET r == renderMenuMsg(st.msgs, rm, IF menu # UndefS THEN menu ELSE RootId, c, TRUE,
                           st.conv.lastMsgId)
    IN  [st EXCEPT !.msgs = r.msgs, !.render = r.info,
                   !.sig = IF @ = "none" THEN sig ELSE @]

\* A step of the handler runs: it runs after the signal if there has been one
Stepped(st) == [st EXCEPT !.after = @ \/ st.sig # "none"]

\* ask prompts: the question of step i (field f) is put to the user
Asks(st, type, i, f) ==
    editOrReply([Stepped(st) EXCEPT !.asked = Append(@, <<i, f>>)], Prompt(type, i, f, "none"))

RECURSIVE RunFrom(_, _, _, _, _, _)
\* The handler from step i (field f of a form) on, up to its next wait (pc = the
\* step waiting, fld = the field) or its end (pc = 0)
RunFrom(scr, st, i, f, c, rm) ==
    IF i > Len(scr) THEN [st |-> st, pc |-> 0, fld |-> 0]
    ELSE CASE scr[i].op = "ask" -> [st |-> Asks(st, scr[i].type, i, 0), pc |-> i, fld |-> 0]
           [] scr[i].op = "form" ->
                IF f <= Len(scr[i].fields)
                THEN [st |-> Asks(st, scr[i].fields[f], i, f), pc |-> i, fld |-> f]
                ELSE CHOOSE r \in {RunFrom(scr, s1, i + 1, 1, c, rm) :
                                     s1 \in {[st EXCEPT !.form = st.vals,
                                                        !.formDone = "complete"]}} : TRUE
           [] scr[i].op = "say" ->
                \* the run so far is worked out once, then the rest
                CHOOSE r \in {RunFrom(scr, s1, i + 1, 1, c, rm) :
                                s1 \in {editOrReply(Stepped(st), SayContent(scr[i], i))}} : TRUE
           [] scr[i].op = "navigate" ->
                CHOOSE r \in {RunFrom(scr, s1, i + 1, 1, c, rm) :
                                s1 \in {navigate(Stepped(st), rm, scr[i].menu, c, "navigated")}} :
                    TRUE
           [] scr[i].op = "delete" ->
                CHOOSE r \in {RunFrom(scr, s1, i + 1, 1, c, rm) :
                                s1 \in {deletePrompt(Stepped(st))}} : TRUE
           [] scr[i].op = "throw" ->
                [st |-> [Stepped(st) EXCEPT !.thrown = TRUE], pc |-> 0, fld |-> 0]

Texts == {CommandGo, CommandStart, <<"i", "7">>, <<"7">>, <<"0">>}

\* The token of a button of ActA of a menu whose id is the empty string
NoOriginToken == <<"a", ":">> \o ActA \o <<"/", ":", "3">>

\* The updates the user can send: a press of a button of a message of the chat, a
\* text, a photo
Updates ==
    UNION {{Update(id, msgs[id].photo, msgs[id].tokens[k], UndefS, FALSE) :
               k \in 1..Len(msgs[id].tokens)} :
              id \in {j \in 1..Len(msgs) : Exists(msgs, j)}}
    \cup {Update(0, FALSE, UndefS, t, FALSE) : t \in Texts}
    \cup {Update(0, FALSE, UndefS, UndefS, TRUE)}
    \cup {Update(1, msgs[1].photo, NoOriginToken, UndefS, FALSE) : k \in {j \in {1} : Exists(msgs, j)}}

ValidateMut(step, n) == TRUE

\* opts.validate(n) of the step
Validate(step, n) == step.validate = "positive" => n > 0

\* The type of the ask that waits at step pc (field fld of a form), and its step
\* as ask sees it: form passes only the type (conversation.ts 324-326)
AskOf(pc, fld) ==
    IF script[pc].op = "form" THEN AskStep(script[pc].fields[fld]) ELSE script[pc]

\* What a waiting ask makes of an update (conversation.ts 204-313): "answer" it
\* returns a value, "cancel", "kind" the input is of the wrong kind, "invalid"
\* validate refused it, "drop" the wait does not take the update, "crash" the
\* otherwise of the choice answers an update that is no callback query
Classify(step, u) ==
    CASE step.type = "choice" ->
            IF u.data = UndefS THEN "crash"
            ELSE IF ~StartsWith(u.data, AskPrefix) THEN "drop"
            ELSE IF u.data = AskCancel THEN "cancel" ELSE "answer"
      [] step.type = "photo" ->
            IF u.data = CancelData THEN "cancel"
            ELSE IF u.data # UndefS THEN "kind"
            ELSE IF u.photo THEN "answer" ELSE "drop"
      [] step.type = "number" ->
            IF u.data = CancelData THEN "cancel"
            ELSE IF u.data # UndefS THEN "kind"
            ELSE IF u.text = UndefS THEN "drop"
            ELSE IF NumberIsNaN(u.text) THEN "kind"
            ELSE IF ~Validate(step, DigitsToNum(u.text)) THEN "invalid" ELSE "answer"
      [] OTHER ->
            IF u.data = CancelData THEN "cancel"
            ELSE IF u.data # UndefS THEN "kind"
            ELSE IF u.text = UndefS THEN "drop" ELSE "answer"

\* The value ask returns for an update it takes as the answer
AnswerValue(step, u) ==
    CASE step.type = "choice" -> StrV(SliceFrom(u.data, Len(AskPrefix)))
      [] step.type = "photo" -> StrV(<<"f">>)
      [] step.type = "number" -> Num(DigitsToNum(u.text))
      [] OTHER -> StrV(u.text)

ReplayCtxMut(inst, u) == u

\* The update whose context the builder is given when instance inst is re-run on
\* update u: the one that entered the instance
ReplayCtx(inst, u) == inst.ctx0

\* The run of instance inst up to its wait, as the re-run finds it
Replayed(inst, conv, ms, ctx) ==
    [NewRun(conv, ms, ctx) EXCEPT !.conv.lastMsgId = inst.tracked, !.local = inst.local,
                                  !.sig = inst.sig, !.vals = inst.vals]

\* The re-run of an instance on an update its wait takes with outcome cls: ask
\* returns the answer, or navigates and returns undefined, or asks again
\* (conversation.ts 204-313); st0 is the run up to the wait
ResumedRun(u, inst, cls, st0, rm) ==
    LET step == AskOf(inst.pc, inst.fld)
        inForm == script[inst.pc].op = "form"
    IN  CASE cls = "answer" ->
               IF inForm
               THEN RunFrom(script, [st0 EXCEPT !.vals = Append(@, AnswerValue(step, u))],
                            inst.pc, inst.fld + 1, u, rm)
               ELSE RunFrom(script, [st0 EXCEPT !.value = AnswerValue(step, u)],
                            inst.pc + 1, 1, u, rm)
          [] cls = "cancel" ->
               CHOOSE r \in {RunFrom(script,
                                     [s1 EXCEPT !.formDone = IF inForm THEN "cancelled" ELSE @],
                                     inst.pc + 1, 1, u, rm) :
                               s1 \in {navigate(st0, rm, UndefS, u, "cancelled")}} : TRUE
          [] cls \in {"kind", "invalid"} ->
               [st |-> editOrReply(
                          [st0 EXCEPT !.msgs = IF u.data # UndefS THEN DeleteMsg(@, u.cbMsg)
                                               ELSE @],
                          Prompt(step.type, inst.pc, inst.fld, cls)),
                pc |-> inst.pc, fld |-> inst.fld]
          [] cls = "drop" ->
               [st |-> [st0 EXCEPT !.msgs = IF step.type = "choice" THEN DeleteMsg(@, u.cbMsg)
                                            ELSE @],
                pc |-> inst.pc, fld |-> inst.fld]
          [] cls = "crash" -> [st |-> [st0 EXCEPT !.thrown = TRUE], pc |-> 0, fld |-> 0]

WaitingMut(r, origin, first, ctx0) ==
    [pc |-> r.pc, fld |-> r.fld, vals |-> <<>>, local |-> r.st.local,
     tracked |-> r.st.conv.lastMsgId, sig |-> r.st.sig, origin |-> origin, first |-> first,
     ctx0 |-> ctx0]

\* The instance that waits after run r
Waiting(r, origin, first, ctx0) ==
    [pc |-> r.pc, fld |-> r.fld, vals |-> r.st.vals, local |-> r.st.local,
     tracked |-> r.st.conv.lastMsgId, sig |-> r.st.sig, origin |-> origin, first |-> first,
     ctx0 |-> ctx0]

\* What a run did, for the record of the update
RunEvent(ev, r, st0) ==
    [ev EXCEPT !.at = st0.local, !.ended = r.pc = 0, !.after = r.st.after,
               !.touched = r.st.touched, !.value = r.st.value, !.form = r.st.form,
               !.formDone = r.st.formDone, !.asked = r.st.asked, !.prompt = r.st.prompt,
               !.tracked = r.st.conv.lastMsgId, !.render = r.st.render, !.log = r.st.log]

\* An update of the chat while an instance waits: the instance is re-run on it
Resume(u, cls) ==
    /\ active # <<>>
    /\ Classify(AskOf(active[1].pc, active[1].fld), u) = cls
    /\ \E inst \in {active[1]} :
       \E ctx \in {InnerCtx(ReplayCtx(inst, u), session)} :
       \E payload \in {ResolvePayload(NewConversation, ctx)} :
       \E st0 \in {Replayed(inst, PersistPayload(NewConversation, payload), msgs, ctx)} :
       \E r \in {ResumedRun(u, inst, cls, st0, RenderedMenus)} :
              /\ Room(r.st.msgs)
              /\ msgs' = r.st.msgs
              /\ active' = IF r.pc = 0 THEN <<>>
                           ELSE <<Waiting(r, inst.origin, inst.first, inst.ctx0)>>
              /\ everEnded' = (everEnded \/ r.pc = 0)
              /\ event' = RunEvent([NoEvent EXCEPT
                                      !.kind = IF cls \in {"kind", "invalid"} THEN "reject"
                                               ELSE cls,
                                      !.trigger = cls, !.busy = TRUE,
                                      !.carried = inst.first,
                                      !.given = HandlerPayload(payload),
                                      !.origin = inst.origin, !.cb = u.cbMsg, !.u = u,
                                      !.pc = inst.pc, !.fld = inst.fld,
                                      !.shown = IF Exists(msgs, inst.local)
                                                THEN msgs[inst.local].text ELSE <<>>,
                                      !.error = IF r.st.thrown THEN "unhandled" ELSE "none"],
                                   r, st0)
              /\ UNCHANGED <<script, session, pvars, nvars>>

AskAnswered == \E u \in Updates : Resume(u, "answer")
AskRejected == \E u \in Updates : Resume(u, "kind") \/ Resume(u, "invalid")
AskCancelled == \E u \in Updates : Resume(u, "cancel")
AskDropped == \E u \in Updates : Resume(u, "drop")
AskCrashed == \E u \in Updates : Resume(u, "crash")

DownstreamMut(act) == TRUE

\* Whether an update goes on to the middleware installed after the conversations
\* (engine.ts 392, 545-550): not while an instance waits, which takes or drops it
Downstream(act) == act = <<>>

\* ctx.conversation.enter("telebot_" + ActA): the first run of a new instance on
\* update u; a failure of the run is thrown to the caller, and the pre-check of a
\* button (engine.ts 585-590) logs it and sends the root menu
Enter(u, sess, trigger, carried, origin) ==
    \E ctx \in {InnerCtx(u, sess)} :
    \E payload \in {ResolvePayload(NewConversation, ctx)} :
    \E st0 \in {NewRun(PersistPayload(NewConversation, payload), msgs, ctx)} :
    \E r \in {RunFrom(script, st0, 1, 1, u, RenderedMenus)} :
    \E restored \in {r.st.thrown /\ trigger = "button"} :
    \E res \in {IF restored THEN renderMenuMsg(r.st.msgs, RenderedMenus, RootId, u, FALSE, 0)
                ELSE [msgs |-> r.st.msgs, info |-> r.st.render]} :
        /\ Room(res.msgs)
        /\ session' = sess
        /\ msgs' = res.msgs
        /\ active' = IF r.pc = 0 THEN <<>> ELSE <<Waiting(r, origin, payload, u)>>
        /\ everEnded' = (everEnded \/ r.pc = 0)
        /\ event' = [RunEvent([NoEvent EXCEPT
                                 !.kind = "enter", !.trigger = trigger, !.carried = carried,
                                 !.given = HandlerPayload(payload), !.origin = origin,
                                 !.cb = u.cbMsg, !.u = u, !.fresh = everEnded,
                                 !.error = IF restored THEN "restored"
                                           ELSE IF r.st.thrown THEN "unhandled" ELSE "none"],
                              r, st0)
                     EXCEPT !.render = res.info]
        /\ UNCHANGED <<script, pvars, nvars>>

\* An update is handled by the middleware after the conversations, which calls
\* renderMenu or not
Dispatched(u, trigger, r) ==
    /\ Room(r.msgs)
    /\ msgs' = r.msgs
    /\ event' = [NoEvent EXCEPT !.kind = "dispatch", !.trigger = trigger, !.cb = u.cbMsg, !.u = u,
                                !.render = r.info]
    /\ UNCHANGED <<script, session, active, everEnded, pvars, nvars>>

NotRendered == [msgs |-> msgs, info |-> NoRender]

\* The pre-check of a: tokens (engine.ts 556-593)
EnterByButton ==
    \E u \in Updates :
        /\ Downstream(active)
        /\ u.data # UndefS /\ StartsWith(u.data, <<"a", ":">>)
        /\ \E tok \in {ParseActionToken(u.data)} :
           \E sess \in {[session EXCEPT !.originMenuId = tok.originMenuId]} :
               IF tok.actionId \in actions
               THEN Enter(u, sess, "button", DecodeCallbackPayload(u.data), tok.originMenuId)
               ELSE /\ session' = sess
                    /\ \E r \in {renderMenuMsg(msgs, RenderedMenus, RootId, u, FALSE, 0)} :
                          /\ Room(r.msgs)
                          /\ msgs' = r.msgs
                          /\ event' = [NoEvent EXCEPT !.kind = "dispatch", !.trigger = "a",
                                                      !.cb = u.cbMsg, !.u = u,
                                                      !.render = r.info, !.error = "restored"]
                    /\ UNCHANGED <<script, active, everEnded, pvars, nvars>>

\* An enterAction that leaves the origin of the session as it is
EnterByTextMut ==
    \E u \in Updates :
        /\ Downstream(active)
        /\ u.text # UndefS
        /\ u.text = CommandGo \/ RegexpCapture(u.text) # UndefS
        /\ \E payload \in {IF u.text = CommandGo THEN UndefP
                           ELSE CapturePayload(RegexpCapture(u.text))} :
               Enter(u, [session EXCEPT !.payload = payload], "text", payload, UndefS)

\* A command or regexp trigger of ActA and enterAction (engine.ts 598-636)
EnterByText ==
    \E u \in Updates :
        /\ Downstream(active)
        /\ u.text # UndefS
        /\ u.text = CommandGo \/ RegexpCapture(u.text) # UndefS
        /\ \E payload \in {IF u.text = CommandGo THEN UndefP
                           ELSE CapturePayload(RegexpCapture(u.text))} :
               Enter(u, [session EXCEPT !.originMenuId = UndefS, !.payload = payload],
                     "text", payload, UndefS)

\* bot.command("start") (engine.ts 761-768)
StartCommand ==
    \E u \in Updates :
        /\ Downstream(active)
        /\ u.text = CommandStart
        /\ Dispatched(u, "start", renderMenuMsg(msgs, RenderedMenus, RootId, u, FALSE, 0))

\* bot.on("message") (engine.ts 770-777), in a private chat
AnyMessage ==
    \E u \in Updates :
        /\ Downstream(active)
        /\ u.data = UndefS
        /\ u.text # CommandStart /\ u.text # CommandGo /\ RegexpCapture(u.text) = UndefS
        /\ Dispatched(u, "message", renderMenuMsg(msgs, RenderedMenus, RootId, u, FALSE, 0))

\* callback_query:data, branches n: and r: (engine.ts 789-795, 810-816), on the
\* messages of the chat
PressNavigate ==
    \E u \in Updates :
        /\ Downstream(active)
        /\ u.data # UndefS /\ StartsWith(u.data, <<"n", ":">>)
        /\ Dispatched(u, "n", renderMenuMsg(msgs, RenderedMenus, DecodeToken(u.data).target,
                                            u, TRUE, 0))

PressRefresh ==
    \E u \in Updates :
        /\ Downstream(active)
        /\ u.data # UndefS /\ StartsWith(u.data, <<"r", ":">>)
        /\ Dispatched(u, "r", renderMenuMsg(msgs, RenderedMenus, DecodeToken(u.data).target,
                                            u, TRUE, 0))

\* callback_query:data for a token of no branch (engine.ts 963): it is answered
PressOther ==
    \E u \in Updates :
        /\ Downstream(active)
        /\ u.data # UndefS /\ DecodeToken(u.data).op = "none"
        /\ Dispatched(u, "other", NotRendered)

\* Time passes or the user deletes a message on their side: the transport will
\* refuse to edit or delete it, while a press of one of its buttons can still arrive
MessageAges ==
    \E id \in 1..Len(msgs) :
        /\ Exists(msgs, id) /\ ~msgs[id].old
        /\ Cardinality({j \in 1..Len(msgs) : msgs[j].old}) < MaxOld
        /\ msgs' = [msgs EXCEPT ![id].old = TRUE]
        /\ event' = NoEvent
        /\ UNCHANGED <<script, session, active, everEnded, pvars, nvars>>

Init ==
    /\ script \in Scripts
    /\ defs = AppMenus
    /\ menus = InstallCollect(AppMenus, {ActA}).menus
    /\ actions = InstallCollect(AppMenus, {ActA}).actions
    /\ pageState = EmptyMap
    /\ screen = NoScreen
    /\ session = NewSession
    /\ active = <<>>
    /\ msgs = <<>>
    /\ everEnded = FALSE
    /\ event = NoEvent
    /\ inp = 0 /\ out = 0 /\ phase = "chat" /\ pressed = 0

Next ==
    \/ AskAnswered \/ AskRejected \/ AskCancelled \/ AskDropped \/ AskCrashed
    \/ EnterByButton \/ EnterByText
    \/ StartCommand \/ AnyMessage \/ PressNavigate \/ PressRefresh \/ PressOther
    \/ MessageAges

Spec == Init /\ [][Next]_vars

-----------------------------------------------------------------------------
-----------------------------------------------------------------------------
(* Menus with tabs, inline handlers and several texts (SpecTabs): engine.ts     *)
(* buildKeyboard 154-236, the t: branch 818-845, layout.ts 43-48                *)

\* layout.button(label).action(() => layout.text(...)), with .id() and .default();
\* the text the handler sets names the tab
Tab(label, dynamic, buttonId, isDefault) ==
    [kind |-> "button",
     cfg |-> [NewButton(label) EXCEPT !.dynamic = dynamic, !.buttonId = buttonId,
                                      !.isDefault = isDefault, !.action = "fn",
                                      !.tabText = <<"t">> \o label \o
                                                  (IF isDefault THEN <<"d">> ELSE <<>>)]]

\* layout.button(label).id(buttonId).guard(fn).action(async (ctx, conv) => ...)
InlineButton(buttonId, guard) ==
    [kind |-> "button",
     cfg |-> [NewButton(<<"h">>) EXCEPT !.inlineHandler = TRUE, !.buttonId = buttonId,
                                        !.guard = guard]]

\* layout.button(label).default().action(ActA): the fallback button of the menu
DefaultRef ==
    [kind |-> "button",
     cfg |-> [NewButton(<<"f">>) EXCEPT !.action = "ref", !.actionId = ActA, !.isDefault = TRUE]]

\* The buttons the builder of a tabbed menu declares
TabButtons ==
    { Tab(<<"T">>, FALSE, UndefS, FALSE), Tab(<<"T">>, FALSE, UndefS, TRUE),
      Tab(<<"U">>, FALSE, UndefS, TRUE), Tab(<<"V">>, TRUE, UndefS, FALSE),
      DefaultRef,
      InlineButton(UndefS, "none"), InlineButton(UndefS, "fail"), InlineButton(<<"k">>, "none") }

\* The builders of a tabbed menu: no text or two calls of layout.text, then up to
\* MaxBtns buttons and a refresh button
TabLayouts ==
    { [maxPerRow |-> 0, elements |-> texts \o btns \o <<RefreshEl>>] :
        texts \in {<<>>, <<TextEl(<<"a">>), TextEl(<<"b">>)>>},
        btns \in UNION {[1..n -> TabButtons] : n \in 1..MaxBtns} }

\* The application: the root leads to menu B, the tabbed menu
TabMenus(l) ==
    [id \in MenuIds |->
        IF id = RootId THEN [maxPerRow |-> 0, elements |-> <<NavButton(MenuB), RefreshEl>>]
        ELSE IF id = MenuB THEN l
        ELSE [maxPerRow |-> 0, elements |-> <<RefreshEl>>]]

InitTabs ==
    /\ defs \in {TabMenus(l) : l \in TabLayouts}
    /\ menus = InstallCollect(defs, {ActA}).menus
    /\ actions = InstallCollect(defs, {ActA}).actions
    /\ pageState = EmptyMap
    /\ screen = NoScreen
    /\ inp = 0 /\ out = 0 /\ phase = "tabs" /\ pressed = NoDispatch
    /\ ConvIdle

NextTabs ==
    \/ Start \/ MenuTrigger \/ HandleNavigate \/ HandleRefresh \/ HandleSwitchTab
    \/ HandleAction

SpecTabs == InitTabs /\ [][NextTabs]_vars

-----------------------------------------------------------------------------
(* Discovery on menu graphs with cycles (SpecCollect): engine.ts installMenu    *)
(* 337-364 and collectMenuTree 67-132                                           *)

\* The most submenu buttons one menu declares
MaxSubs == 2

\* The submenu buttons a menu can declare: any menus, itself included, a menu
\* more than once
LoopLists == UNION {[1..n -> MenuIds] : n \in 0..MaxSubs}

LoopGraphs == {[id \in MenuIds |-> MenuLayout(id, g[id])] : g \in [MenuIds -> LoopLists]}

\* The menus are created, installMenu has not run
InitCollect ==
    /\ defs \in LoopGraphs
    /\ menus = EmptyMap /\ actions = {}
    /\ pageState = EmptyMap
    /\ screen = NoScreen
    /\ inp = 0 /\ out = <<>> /\ phase = "created" /\ pressed = NoDispatch
    /\ ConvIdle

\* installMenu (engine.ts 337-364): the scan from the root and the sweep; out
\* keeps the menus whose builder the scan ran, in order
Install ==
    /\ phase = "created"
    /\ \E c \in {InstallCollect(defs, {ActA})} :
          /\ menus' = c.menus
          /\ actions' = c.actions
          /\ out' = c.built
    /\ phase' = "installed"
    /\ UNCHANGED <<defs, pageState, screen, inp, pressed, cvars>>

NextCollect == Install

SpecCollect == InitCollect /\ [][NextCollect]_vars

-----------------------------------------------------------------------------
(* The payload of a regexp trigger (SpecCapture): engine.ts 624-635, enterAction *)
(* 598-607 and the cascade of convBuilder 408-448                               *)

\* The most digits the capture group matches
MaxDigits == 2

DigitStrings == UNION {[1..n -> {Digits[i] : i \in 1..10}] : n \in 1..MaxDigits}

InitCapture ==
    /\ inp \in DigitStrings
    /\ out = UndefP
    /\ phase = "text"
    /\ pressed = NoDispatch
    /\ NavIdle /\ ConvIdle

\* The user sends "i" followed by the digits inp: the regexp trigger of ActA makes
\* the payload of the capture and enterAction stages it in the session; the
\* builder resolves its payload and calls the handler with it, which out keeps
Capture ==
    /\ phase = "text"
    /\ \E u \in {Update(0, FALSE, UndefS, <<"i">> \o inp, FALSE)} :
       \E staged \in {CapturePayload(RegexpCapture(u.text))} :
       \E sess \in {[NewSession EXCEPT !.originMenuId = UndefS, !.payload = staged]} :
          out' = HandlerPayload(ResolvePayload(NewConversation, InnerCtx(u, sess)))
    /\ phase' = "handled"
    /\ UNCHANGED <<inp, pressed, nvars, cvars>>

NextCapture == Capture

SpecCapture == InitCapture /\ [][NextCapture]_vars

-----------------------------------------------------------------------------
(* Two chats served by one bot: the map pageState is shared, the session and   *)
(* the conversation of a chat are kept by the host under the chat's id         *)
(* (engine.ts 29, 367-374, 392). The variables hold the chat of the update     *)
(* being handled, out what the host keeps for the other chat.                  *)

Chats == {1, 2}
OtherChat == 3 - inp

\* The root menu: a list of two pages of one item, each item a button of ActA
ChatMenus == RootId :> [maxPerRow |-> 0, elements |-> <<ListEl(2, 1, 1, "none", TRUE)>>]

\* What the host keeps for a chat, and the chat itself
ChatRecord == [session |-> session, active |-> active, msgs |-> msgs, everEnded |-> everEnded]

InitChats ==
    /\ phase = "chats" /\ inp = 1 /\ pressed = 0
    /\ script = <<AskStep("text"), SayStep>>
    /\ defs = ChatMenus
    /\ menus = InstallCollect(ChatMenus, {ActA}).menus
    /\ actions = InstallCollect(ChatMenus, {ActA}).actions
    /\ pageState = EmptyMap
    /\ screen = NoScreen
    /\ session = NewSession
    /\ active = <<>>
    /\ msgs = <<>>
    /\ everEnded = FALSE
    /\ event = NoEvent
    /\ out = [session |-> NewSession, active |-> <<>>, msgs |-> <<>>, everEnded |-> FALSE]

\* The next update is of the other chat: the host keeps the session and the
\* conversation of this chat and loads those of the other
SwitchChat ==
    /\ inp' = OtherChat
    /\ out' = ChatRecord
    /\ session' = out.session
    /\ active' = out.active
    /\ msgs' = out.msgs
    /\ everEnded' = out.everEnded
    /\ event' = NoEvent
    /\ UNCHANGED <<script, phase, pressed, nvars>>

\* callback_query:data, branch p: (engine.ts 797-808), on the messages of the chat
PressChangePage ==
    \E u \in Updates :
        /\ Downstream(active)
        /\ u.data # UndefS /\ StartsWith(u.data, <<"p", ":">>)
        /\ \E t \in {DecodeToken(u.data)} :
           \E ps \in {(pageKey(ChatId, t.target, t.listIdx) :> t.page) @@ pageState} :
           \E r \in {renderMenuMsg(msgs, [id \in DOMAIN menus |-> MenuMsgAt(id, ps)], t.target,
                                   u, TRUE, 0)} :
               /\ Room(r.msgs)
               /\ pageState' = ps
               /\ msgs' = r.msgs
               /\ event' = [NoEvent EXCEPT !.kind = "dispatch", !.trigger = "p",
                                           !.cb = u.cbMsg, !.u = u, !.render = r.info]
               /\ UNCHANGED <<script, session, active, everEnded, pvars, defs, menus, actions,
                              screen>>

NextChats ==
    \/ SwitchChat \/ PressChangePage
    \/ StartCommand \/ EnterByButton \/ EnterByText \/ AskAnswered

SpecChats == InitChats /\ [][NextChats]_vars

-----------------------------------------------------------------------------
(* Actions whose handler populates a layout with inline sub-action buttons     *)
(* (SpecInline): engine.ts convBuilder 496-542, the ai: branch 847-956         *)

\* The buttons the handler of ActA declares in its layout
InlineButtons ==
    { InlineButton(UndefS, "none"), InlineButton(UndefS, "fail"),
      InlineButton(<<"k">>, "none"), RowButton(1, "none", FALSE) }

\* The layouts the handler of ActA populates: up to MaxBtns buttons
ActionLayouts ==
    { [maxPerRow |-> 0, elements |-> btns] :
        btns \in UNION {[1..n -> InlineButtons] : n \in 1..MaxBtns} }

\* Caller code one update executed: the handler of an action, or the inline
\* handler of the button with index i of the layout of that action
RanHandler(actionId) == [code |-> "handler", of |-> actionId, i |-> 0]
RanInline(actionId, i) == [code |-> "inline", of |-> actionId, i |-> i]

\* The sub-layout the inline handler of button i populates: a text naming it
SubLayout(i) == [maxPerRow |-> 0, elements |-> <<TextEl(<<"s">> \o NumToStr(i))>>]

\* engine.ts 899-910: the index of the first button of the layout whose stable id
\* is left, or NaN
FindButton(btns, originActionId, left) ==
    LET hits == {j \in 0..(Len(btns) - 1) :
                    resolveStableId(originActionId, btns[j + 1].cfg, j) = left}
    IN  IF hits = {} THEN NaN ELSE CHOOSE j \in hits : \A h \in hits : j <= h

\* What an action's layout puts in the chat (engine.ts 513-541 and 925-951)
LayoutScreen(actionId, layout, payload, via) ==
    LET r == buildKeyboard(actionId, layout, ChatId, UndefS, payload, pageState)
    IN  [menuId |-> actionId, text |-> r.text, keyboard |-> r.keyboard, via |-> via,
         ran |-> r.ran, defaults |-> DefaultFlags(layout.elements)]

InitInline ==
    /\ phase = "inline"
    /\ inp \in ActionLayouts
    /\ defs = [id \in {RootId} |-> [maxPerRow |-> 0, elements |-> <<ActionButton(<<"g">>, UndefP), RefreshEl>>]]
    /\ menus = InstallCollect(defs, {ActA}).menus
    /\ actions = InstallCollect(defs, {ActA}).actions
    /\ pageState = EmptyMap
    /\ screen = NoScreen
    /\ out = <<>> /\ pressed = NoDispatch
    /\ ConvIdle

\* A trigger of ActA or a press of its button: the conversation is entered, the
\* builder runs the handler and renders the layout it populated (engine.ts 496-542)
EnterInline ==
    /\ ActA \in actions
    /\ out' = <<RanHandler(ActA)>>
    /\ screen' = LayoutScreen(ActA, inp, UndefP, "enter")
    /\ pressed' = [NoDispatch EXCEPT !.op = "enter", !.target = ActA, !.entered = TRUE]
    /\ UNCHANGED <<inp, phase, defs, menus, actions, pageState, cvars>>

\* callback_query:data, branch ai: with the layout of the action (engine.ts 847-956)
PressInline ==
    \E data \in Pressable :
    \E t \in {DecodeToken(data)} :
        /\ t.op = "ai"
        /\ IF t.origin \notin actions
           THEN /\ out' = <<>>
                /\ screen' = screen
                /\ pressed' = [NoDispatch EXCEPT !.op = "ai", !.target = t.target,
                                                 !.missing = TRUE, !.data = data]
           ELSE \E bidx \in {FindButton(ButtonEls(inp), t.origin, t.target)} :
                IF bidx # NaN /\ ButtonEls(inp)[bidx + 1].cfg.inlineHandler
                THEN /\ out' = <<RanHandler(t.origin), RanInline(t.origin, bidx)>>
                     /\ screen' = LayoutScreen(t.origin, SubLayout(bidx), t.payload, "ai")
                     /\ pressed' = [NoDispatch EXCEPT !.op = "ai", !.target = t.target,
                                                      !.rendered = TRUE, !.data = data]
                ELSE /\ out' = <<RanHandler(t.origin)>>
                     /\ screen' = screen
                     /\ pressed' = [NoDispatch EXCEPT !.op = "ai", !.target = t.target,
                                                      !.data = data]
        /\ UNCHANGED <<inp, phase, defs, menus, actions, pageState, cvars>>

NextInline == EnterInline \/ PressInline

SpecInline == InitInline /\ [][NextInline]_vars

-----------------------------------------------------------------------------
(* Menus with inline-handler buttons, under a generated id or an id given to   *)
(* createMenu, linked from the root or found by the sweep only (SpecIds):      *)
(* engine.ts 83-132, 198-227, 342-364, 552-593, 847-870; menu.ts 33-39         *)

\* createMenu(builder, { id: "ad" })
GivenId == <<"a", "d">>

\* The buttons of the menu under test: up to MaxSubs of them
IdLayouts ==
    { [maxPerRow |-> 0, elements |-> btns \o <<RefreshEl>>] :
        btns \in UNION {[1..n -> InlineButtons] : n \in 1..MaxSubs} }

\* The application: the root and one more menu; the root has a button for it or
\* not, and then only a trigger opens it
IdMenus(id, l, linked) ==
    [m \in {RootId, id} |->
        IF m = RootId
        THEN [maxPerRow |-> 0,
              elements |-> (IF linked THEN <<NavButton(id)>> ELSE <<>>) \o <<RefreshEl>>]
        ELSE l]

InitIds ==
    /\ phase = "ids"
    /\ defs \in {IdMenus(id, l, linked) :
                    id \in {MenuB, GivenId}, l \in IdLayouts, linked \in BOOLEAN}
    /\ menus = InstallCollect(defs, {ActA}).menus
    /\ actions = InstallCollect(defs, {ActA}).actions
    /\ pageState = EmptyMap
    /\ screen = NoScreen
    /\ inp = [maxPerRow |-> 0, elements |-> <<InlineButton(UndefS, "none")>>]
    /\ out = <<>> /\ pressed = NoDispatch
    /\ ConvIdle

NextIds ==
    \/ Start \/ MenuTrigger \/ HandleNavigate \/ HandleRefresh \/ HandleAction
    \/ EnterInline \/ PressInline

SpecIds == InitIds /\ [][NextIds]_vars

-----------------------------------------------------------------------------
(* One button built by a chain of ButtonBuilder calls and then rendered        *)
(* (SpecButton): button.ts 31-124, engine.ts 198-227                           *)

\* The handlers .action is called with: an ActionRef, a sync function, an async
\* function
HandlerKinds == {"ref", "fn", "async"}

\* layout.button("L")
InitButton ==
    /\ phase = "button"
    /\ inp = [kind |-> "button", cfg |-> NewButton(<<"L">>)]
    /\ out = [text |-> <<>>, keyboard |-> <<>>, imageUrl |-> UndefS, ran |-> <<>>]
    /\ pressed = NoDispatch
    /\ NavIdle /\ ConvIdle

\* .url(value): button.ts 51-54
CallUrl ==
    /\ phase = "button"
    /\ inp' = [inp EXCEPT !.cfg.url = <<"u">>]
    /\ UNCHANGED <<out, phase, pressed, nvars, cvars>>

\* .action(handler): button.ts 83-97
CallAction ==
    /\ phase = "button"
    /\ \E h \in HandlerKinds :
          inp' = IF h = "async"
                 THEN [inp EXCEPT !.cfg.inlineHandler = TRUE, !.cfg.action = "none",
                                  !.cfg.actionId = UndefS]
                 ELSE [inp EXCEPT !.cfg.action = h, !.cfg.inlineHandler = FALSE,
                                  !.cfg.actionId = IF h = "ref" THEN ActA ELSE UndefS]
    /\ UNCHANGED <<out, phase, pressed, nvars, cvars>>

\* .menu(ref): button.ts 103-106
CallMenu ==
    /\ phase = "button"
    /\ inp' = [inp EXCEPT !.cfg.submenu = MenuM]
    /\ UNCHANGED <<out, phase, pressed, nvars, cvars>>

\* .id(value), .row(), .payload(data), .default(): button.ts 43-46, 59-62,
\* 112-115, 121-124
CallOther ==
    /\ phase = "button"
    /\ \/ inp' = [inp EXCEPT !.cfg.buttonId = <<"k">>]
       \/ inp' = [inp EXCEPT !.cfg.forceRow = TRUE]
       \/ inp' = [inp EXCEPT !.cfg.payload = IdObj(Num(3))]
       \/ inp' = [inp EXCEPT !.cfg.isDefault = TRUE]
    /\ UNCHANGED <<out, phase, pressed, nvars, cvars>>

\* The layout with the button is rendered as the layout of a menu
RenderButton ==
    /\ phase = "button"
    /\ out' = buildKeyboard(RootId, [maxPerRow |-> 0, elements |-> <<inp>>], ChatId,
                            UndefS, UndefP, pageState)
    /\ phase' = "rendered"
    /\ UNCHANGED <<inp, pressed, nvars, cvars>>

NextButton == CallUrl \/ CallAction \/ CallMenu \/ CallOther \/ RenderButton

SpecButton == InitButton /\ [][NextButton]_vars

-----------------------------------------------------------------------------
(* A paginated list whose items change between renders (SpecPages): engine.ts  *)
(* 238-300, 682-689, 797-816                                                   *)

\* The application: the builder of the root menu lists the n items there are
PageMenus(n, per) ==
    [id \in {RootId} |->
        [maxPerRow |-> 0, elements |-> <<ListEl(n, per, 1, "none", TRUE), RefreshEl>>]]

\* The list the builder of the root menu declares now
RootList == defs[RootId].elements[1].cfg

InitPages ==
    /\ phase = "pages"
    /\ defs \in {PageMenus(n, per) : n \in 0..MaxItems, per \in 1..MaxPerPage}
    /\ menus = InstallCollect(defs, {ActA}).menus
    /\ actions = InstallCollect(defs, {ActA}).actions
    /\ pageState = EmptyMap
    /\ screen = NoScreen
    /\ inp = 0 /\ out = 0 /\ pressed = NoDispatch
    /\ ConvIdle

\* The data the builder reads changes: items are added or removed; the message
\* in the chat stays as it was rendered
ItemsChange ==
    \E n \in 0..MaxItems :
        /\ n # Len(RootList.items)
        /\ defs' = PageMenus(n, RootList.itemsPerPage)
        /\ UNCHANGED <<menus, actions, pageState, screen, pvars, cvars>>

NextPages == Start \/ HandleChangePage \/ HandleRefresh \/ ItemsChange

SpecPages == InitPages /\ [][NextPages]_vars

-----------------------------------------------------------------------------
(* Every branch of the callback dispatcher, the no-op branch included          *)
(* (SpecTokens): engine.ts 779-964                                             *)

\* callback_query:data, branch _: (engine.ts 958-961): the press is answered
HandleNoop ==
    \E data \in Pressable :
    \E t \in {DecodeToken(data)} :
        /\ t.op = "_"
        /\ screen' = screen
        /\ Dispatch("_", UndefS, FALSE, FALSE, FALSE, data)
        /\ UNCHANGED <<defs, menus, actions, pageState, cvars>>

NextTokens == NextDispatch \/ HandleNoop

SpecTokens == InitDispatch /\ [][NextTokens]_vars

-----------------------------------------------------------------------------
(* Updates of one chat handled concurrently (SpecRace): the p: branch sets the *)
(* page and renderMenu awaits the builder before buildKeyboard reads it        *)
(* (engine.ts 797-808, 666-689); webhookCallback and handleUpdate (1192-1206)  *)
(* start the handling of an update while that of another is suspended         *)

\* pageState.set(pageKey(chatId, menuIdStr, parseInt(listIdxStr, 10)), newPage):
\* engine.ts 804
PageSet(ps, data) ==
    (pageKey(ChatId, DecodeToken(data).target, DecodeToken(data).listIdx)
        :> DecodeToken(data).page) @@ ps

MaxPending == 2     \* updates whose handling is suspended at the same time

NoShown == [data |-> UndefS, requested |-> NaN, shown |-> NaN]

InitRace ==
    /\ phase = "race"
    /\ defs \in {PageMenus(n, 1) : n \in 2..MaxItems}
    /\ menus = InstallCollect(defs, {ActA}).menus
    /\ actions = InstallCollect(defs, {ActA}).actions
    /\ pageState = EmptyMap
    /\ screen = NoScreen
    /\ inp = <<>> /\ out = NoShown /\ pressed = NoDispatch
    /\ ConvIdle

\* The p: branch up to the await of the builder in renderMenu (engine.ts 797-804,
\* 666-686): the page is stored and the handling is suspended
BeginChangePage ==
    /\ Len(inp) < MaxPending
    /\ \E data \in Pressable :
          /\ DecodeToken(data).op = "p"
          /\ pageState' = PageSet(pageState, data)
          /\ inp' = Append(inp, data)
    /\ UNCHANGED <<out, phase, pressed, defs, menus, actions, screen, cvars>>

\* The handling of one suspended update goes on: buildKeyboard reads the page and
\* the menu is rendered (engine.ts 689-706, 805-807)
FinishChangePage ==
    \E k \in 1..Len(inp) :
    \E t \in {DecodeToken(inp[k])} :
        /\ screen' = renderMenu(t.target, NewLayout, FALSE, pageState, "p")
        /\ out' = [data |-> inp[k], requested |-> t.page,
                   shown |-> PageGet(pageState, pageKey(ChatId, t.target, t.listIdx))]
        /\ inp' = SubSeq(inp, 1, k - 1) \o SubSeq(inp, k + 1, Len(inp))
        /\ pressed' = [NoDispatch EXCEPT !.op = "p", !.target = t.target, !.rendered = TRUE,
                                         !.data = inp[k]]
        /\ UNCHANGED <<phase, defs, menus, actions, pageState, cvars>>

NextRace == Start \/ BeginChangePage \/ FinishChangePage

SpecRace == InitRace /\ [][NextRace]_vars

-----------------------------------------------------------------------------
(* A choice ask in a chat that has buttons of other prompts (SpecChoice):      *)
(* conversation.ts ask 180-219, say 347-378                                    *)

\* The handler asks for a choice and ends with a say that has a button
ChoiceScripts == { <<AskStep("choice"), SayButtons>> }

InitChoice ==
    /\ script \in ChoiceScripts
    /\ defs = AppMenus
    /\ menus = InstallCollect(AppMenus, {ActA}).menus
    /\ actions = InstallCollect(AppMenus, {ActA}).actions
    /\ pageState = EmptyMap
    /\ screen = NoScreen
    /\ session = NewSession
    /\ active = <<>>
    /\ msgs = <<>>
    /\ everEnded = FALSE
    /\ event = NoEvent
    /\ inp = 0 /\ out = 0 /\ phase = "chat" /\ pressed = 0

NextChoice ==
    \/ AskAnswered \/ AskCancelled \/ AskDropped \/ AskCrashed
    \/ EnterByButton \/ EnterByText \/ StartCommand

SpecChoice == InitChoice /\ [][NextChoice]_vars
(* Properties of conversations (Spec) *)

\* The payload the update of the last event would resolve to by itself
OwnPayload == ResolvePayload(NewConversation, InnerCtx(event.u, session))

CancelReturnsToOrigin ==
    (event.kind = "cancel" /\ event.origin # UndefS) =>
        /\ event.ended
        /\ Exists(msgs, event.at)
        /\ msgs[event.at].kind = "menu"
        /\ msgs[event.at].menuId = event.origin

\* C5: after Cancel is pressed in an ask, or the handler has called navigate(),
\* the instance issues no further prompt and runs no further step.
SignalIsTerminal ==
    /\ ~event.after
    /\ event.kind = "cancel" => event.ended
    /\ \A k \in 1..Len(active) : active[k].sig = "none"

NumberAskWaits ==
    /\ active # <<>>
    /\ script[active[1].pc] = AskPositive

\* The text is a number that validate accepts
ValidNumber(text) == ~NumberIsNaN(text) /\ DigitsToNum(text) > 0

\* C11: an ask of type number with a validate function returns v only for a reply
\* that is a number v validate accepts; any other text reply puts the error text
\* followed by the question into the same prompt message and leaves the ask
\* waiting, so that a valid reply after invalid ones is the value returned.
NumberAskStep ==
    (NumberAskWaits /\ event'.busy /\ event'.u.text # UndefS) =>
        IF ValidNumber(event'.u.text)
        THEN /\ event'.kind = "answer"
             /\ event'.value = Num(DigitsToNum(event'.u.text))
        ELSE /\ event'.kind = "reject"
             /\ active' # <<>> /\ active'[1].pc = active[1].pc
             /\ (Exists(msgs, active[1].local) /\ ~msgs[active[1].local].old) =>
                   /\ active'[1].local = active[1].local
                   /\ Len(msgs') = Len(msgs)
                   /\ msgs'[active[1].local].kind = "prompt"
                   /\ msgs'[active[1].local].text =
                         ErrorText(IF NumberIsNaN(event'.u.text) THEN "kind" ELSE "invalid")
                         \o <<" ">> \o Question(active[1].pc, 0)

FormEvent == event.busy /\ event.pc # 0 /\ script[event.pc].op = "form"

\* C12: form asks its fields in order; answered to the end it returns one value
\* per field, each the answer to that field's ask; at the first cancelled ask it
\* returns undefined and asks no later field.
FormCorrect ==
    /\ (event.kind = "enter" /\ script[1].op = "form") => event.asked = <<<<1, 1>>>>
    /\ (FormEvent /\ event.kind = "answer") =>
          LET fields == script[event.pc].fields
              v == AnswerValue(AskStep(fields[event.fld]), event.u)
          IN  IF event.fld < Len(fields)
              THEN /\ event.asked = <<<<event.pc, event.fld + 1>>>>
                   /\ event.formDone = "none"
                   /\ active # <<>> /\ Len(active[1].vals) = event.fld
                   /\ active[1].vals[event.fld] = v
              ELSE /\ event.formDone = "complete"
                   /\ Len(event.form) = Len(fields)
                   /\ event.form[Len(fields)] = v
                   /\ \A k \in 1..Len(fields) :
                         event.form[k].t = IF fields[k] = "number" THEN "num" ELSE "str"
                   /\ \A k \in 1..Len(event.asked) : event.asked[k][1] # event.pc
    /\ (FormEvent /\ event.kind = "cancel") =>
          /\ event.formDone = "cancelled"
          /\ event.form = <<>>
          /\ \A k \in 1..Len(event.asked) : event.asked[k][1] # event.pc

\* A form of two fields is answered to the end
FormWitness ==
    /\ FormEvent /\ event.formDone = "complete"
    /\ Len(event.form) = 2
    /\ event.form[1].t = "str" /\ event.form[2].t = "num"

\* A message as the chat shows it
Shown(m) == [m EXCEPT !.old = FALSE]

\* C13: a chat has at most one active conversation, and while it is active a new
\* trigger (/start, a message, a command or regexp trigger, a token of a menu)
\* neither renders a menu nor enters a second conversation.
SingleConversationStep ==
    /\ Len(active') <= 1
    /\ active # <<>> =>
          /\ event'.kind \notin {"enter", "dispatch"}
          /\ active' # <<>> => /\ active'[1].ctx0 = active[1].ctx0
                               /\ active'[1].first = active[1].first
          /\ event'.kind # "cancel" =>
                \A id \in 1..Len(msgs') :
                    msgs'[id].kind = "menu" =>
                        id <= Len(msgs) /\ Shown(msgs'[id]) = Shown(msgs[id])

MenuEditPolicy ==
    LET r == event.render
    IN  (r.edit /\ r.prev # 0 /\ ~r.prevOld) =>
            IF r.prevPhoto = r.newPhoto
            THEN r.how = "edited" /\ r.after = r.before
            ELSE r.how = "replaced" /\ ~r.prevKept /\ r.after = r.before + 1

\* C16: an edit of a menu message or of a prompt that the transport rejects
\* because nothing changes is a success: no message is sent, the tracked message
\* stays, no error.
NotModifiedIsSuccess ==
    /\ event.render.how \in {"notmod-sent", "notmod-silent"} =>
          /\ event.render.after = event.render.before
          /\ event.error = "none"
    /\ event.prompt = "notmod" => event.at \in event.touched /\ event.error = "none"

\* C17: a menu edit that fails for another reason: without an explicit target a
\* new message is sent; with one, none is sent and the failure reaches the caller.
EditFailurePolicy ==
    LET r == event.render
    IN  r.how \in {"failed-sent", "failed-silent"} =>
            IF r.target = 0 THEN r.after = r.before + 1
            ELSE r.after = r.before /\ event.error # "none"

\* C19: a handler that throws, in its first run or in a resumed one, entered by a
\* token or by a text trigger: the error is caught by the dispatcher, logged, and
\* the root menu is sent.
HandlerErrorRestores ==
    (event.error # "none" /\ event.kind \in {"enter", "answer", "cancel"}) =>
        /\ event.error = "restored"
        /\ event.render.how = "sent"
        /\ msgs[Len(msgs)].kind = "menu" /\ msgs[Len(msgs)].menuId = RootId

-----------------------------------------------------------------------------
(* Properties of the registry and the dispatcher (SpecNav) *)

\* C14: the dispatch of a token of any operation that names a menu or an action
\* the registry does not have is not fatal: no error leaves the handler and the
\* dispatch ends with the root menu rendered.
DispatchHeals ==
    pressed.missing =>
        /\ ~pressed.error
        /\ pressed.rendered
        /\ screen.menuId = RootId

\* C18: a render changes nothing a later render reads (the registry; the page
\* state, which only a change of page writes), and a menu rendered twice in a row
\* from its own layout with the same page state shows the same text and the same
\* tokens in the same places.
RenderIdempotentStep ==
    /\ pressed'.rendered => <<defs, menus>>' = <<defs, menus>>
    /\ (pressed'.rendered /\ pressed'.op # "p") => pageState' = pageState
    /\ (pressed'.rendered /\ pressed'.op # "t" /\ screen.via \notin {"none", "t"}
        /\ screen'.menuId = screen.menuId /\ pageState' = pageState) =>
          /\ screen'.text = screen.text
          /\ screen'.keyboard = screen.keyboard

Reached == {id \in MenuIds : id = RootId \/ FirstParent(id) # UndefS}

\* C20: after installMenu every menu and action created before it is in the
\* registry, reachable from the root or not, and its trigger opens or enters it;
\* a menu the scan reached keeps the parent the scan gave it.
RegistryComplete ==
    /\ DOMAIN menus = DOMAIN defs
    /\ ActA \in actions
    /\ \A id \in Reached : menus[id].parent = FirstParent(id) /\ menus[id].layout = defs[id]
    /\ \A id \in DOMAIN menus \ Reached : menus[id].parent = UndefS
    /\ pressed.op = "trigger" => pressed.rendered /\ screen.menuId = pressed.target
    /\ pressed.op = "enter" => pressed.entered

\* The trigger of a menu the root does not lead to has opened it, in an
\* application where the root leads to the third menu
RegistryWitness ==
    /\ pressed.op = "trigger"
    /\ pressed.target \notin Reached
    /\ screen.menuId = pressed.target
    /\ \E id \in Reached : FirstParent(id) = RootId /\ menus[id].parent = RootId

-----------------------------------------------------------------------------
(* Properties of tabs, texts and inline handlers (SpecTabs) *)

\* Button i (counted among the buttons) of the layout of menu id
ButtonAt(id, i) ==
    LET els == defs[id].elements
    IN  els[CHOOSE j \in 1..Len(els) : els[j].kind = "button" /\ ButtonsBefore(els, j) = i + 1].cfg

\* C21: the dispatch of the switch-tab token of button b of menu M renders M from
\* a layout in which exactly one button carries the default flag, b, and the tab
\* handler that is run is b's; the selection is not stored: a render not caused by
\* a switch-tab token uses the flags the builder of the menu declares.
SwitchTabStep ==
    /\ (pressed'.op = "t" /\ pressed'.rendered) =>
          \A b \in {x \in AllButtons(screen.keyboard) : x.data = pressed'.data} :
              /\ screen'.menuId = pressed'.target
              /\ screen'.defaults = {b.src.i}
              /\ screen'.ran = <<b.src.i>>
    /\ (pressed'.rendered /\ pressed'.op # "t") =>
          screen'.defaults = DefaultFlags(defs[screen'.menuId].elements)

SwitchTabSelects == [][SwitchTabStep]_vars

\* The contents of the calls of layout.text made by the builder of menu id, in
\* call order
DeclaredTexts(id) ==
    LET els == defs[id].elements
        texts == SelectSeq(els, LAMBDA el : el.kind = "text")
    IN  [k \in 1..Len(texts) |-> texts[k].content]

\* The calls of layout.text made for the shown render: those of the builder, then
\* those of the tab handlers that were run
TextCalls ==
    DeclaredTexts(screen.menuId)
    \o [k \in 1..Len(screen.ran) |-> ButtonAt(screen.menuId, screen.ran[k]).tabText]

\* The parts occur in the text one after the other, from position from on
RECURSIVE Occurs(_, _, _)
Occurs(parts, text, from) ==
    parts = <<>>
    \/ \E p \in from..(Len(text) - Len(Head(parts)) + 1) :
          /\ SubSeq(text, p, p + Len(Head(parts)) - 1) = Head(parts)
          /\ Occurs(Tail(parts), text, p + Len(Head(parts)))

\* C25: when layout.text is called several times while a menu is built, the
\* rendered text contains the content of every call, in call order.
TextsAppended ==
    screen.menuId # UndefS => Occurs(TextCalls, screen.text, 1)

\* The default tabs of the layout the shown render was made from
DefaultTabs == {i \in screen.defaults : ButtonAt(screen.menuId, i).action = "fn"}

\* C29: in a render of a layout that has a default tab, the handler of the default
\* tab runs exactly once, before the snapshot, so that its text is part of the
\* render; at most one tab handler runs per render, whatever the number of buttons
\* flagged default.
DefaultTabRunsOnce ==
    screen.menuId # UndefS =>
        /\ Len(screen.ran) <= 1
        /\ \A k \in 1..Len(screen.ran) : screen.ran[k] \in DefaultTabs
        /\ DefaultTabs # {} =>
              /\ Len(screen.ran) = 1
              /\ Occurs(<<ButtonAt(screen.menuId, screen.ran[1]).tabText>>, screen.text, 1)

\* The indices (among the buttons) of the buttons menu id declares, in order, and
\* of those a guard does not hide
ButtonIndices(id) == [k \in 1..ButtonsBefore(defs[id].elements, Len(defs[id].elements)) |-> k - 1]
ShownIndices(id) == SelectSeq(ButtonIndices(id), LAMBDA i : passesGuard(ButtonAt(id, i)))

\* The buttons of the shown keyboard that come from the buttons of the layout
ShownButtons == SelectSeq(Flatten(screen.keyboard), LAMBDA b : b.src.k = "button")

\* The id each inline handler was registered under at discovery
RegisteredIds == InstallCollect(defs, {ActA}).ids

\* C23: for every inline-handler button of a discovered menu, the action id of
\* its token, derived at render time from the button's explicit id or from the
\* menu id and the button's position among all declared buttons, is the id its
\* handler was registered under at discovery, in every render and whichever
\* guards hide other buttons.
StableIds ==
    screen.menuId # UndefS =>
        /\ Len(ShownButtons) = Len(ShownIndices(screen.menuId))
        /\ \A k \in 1..Len(ShownButtons) :
              LET i == ShownIndices(screen.menuId)[k]
              IN  ButtonAt(screen.menuId, i).inlineHandler =>
                    /\ DecodeToken(ShownButtons[k].data).op = "a"
                    /\ <<screen.menuId, i>> \in DOMAIN RegisteredIds
                    /\ DecodeToken(ShownButtons[k].data).target = RegisteredIds[<<screen.menuId, i>>]
                    /\ DecodeToken(ShownButtons[k].data).target \in actions

\* A menu whose first declared button is hidden by its guard and whose second is
\* an inline-handler button without an explicit id has been rendered again by a
\* refresh, and the press of the inline button has entered its action
StableIdsWitness ==
    /\ screen.menuId = MenuB /\ screen.via = "r"
    /\ Len(ButtonIndices(MenuB)) >= 2
    /\ ~passesGuard(ButtonAt(MenuB, 0))
    /\ ButtonAt(MenuB, 1).inlineHandler /\ ButtonAt(MenuB, 1).buttonId = UndefS
    /\ pressed.op = "a" /\ pressed.entered
    /\ pressed.target = RegisteredIds[<<MenuB, 1>>]

-----------------------------------------------------------------------------
(* Properties of discovery (SpecCollect) *)

\* The menus a chain of submenu buttons leads to from the root
RECURSIVE Closure(_)
Closure(S) ==
    LET T == S \cup UNION {Sub(id) : id \in S}
    IN  IF T = S THEN S ELSE Closure(T)

ReachableMenus == Closure({RootId})

\* The number of runs of the builder of menu id
Runs(id) == Cardinality({k \in 1..Len(out) : out[k] = id})

\* C26: discovery from the root terminates on every finite menu graph, with
\* cycles and with menus that link to themselves, and runs the builder of each
\* menu reachable from the root exactly once (and of no other menu).
DiscoveryOnce ==
    /\ phase = "created" => ENABLED Install
    /\ phase = "installed" =>
          \A id \in MenuIds : Runs(id) = (IF id \in ReachableMenus THEN 1 ELSE 0)

\* installMenu has returned for a root that links to itself and to menu A, where
\* A and B link to each other
DiscoveryWitness ==
    /\ phase = "installed"
    /\ RootId \in Sub(RootId) /\ MenuA \in Sub(RootId)
    /\ MenuB \in Sub(MenuA) /\ MenuA \in Sub(MenuB) /\ MenuB \notin Sub(RootId)
    /\ Len(out) = 3

-----------------------------------------------------------------------------
(* Properties of the regexp trigger (SpecCapture) *)

\* C24: for an action with a regexp trigger whose first capture group matches a
\* string of decimal digits d, the handler receives the payload {id: n} where n is
\* the number d denotes, for every d.
CaptureIsNumber ==
    phase = "handled" => out = IdObj(Num(DigitsToNum(inp)))

-----------------------------------------------------------------------------
(* Properties of the payload, the origin and the prompt of a conversation (Spec) *)

\* The first defined payload of a sequence, UndefP if none is
RECURSIVE FirstDefined(_)
FirstDefined(stages) ==
    IF stages = <<>> THEN UndefP
    ELSE IF Head(stages) # UndefP THEN Head(stages) ELSE FirstDefined(Tail(stages))

\* The payload the dispatcher of the last update staged in the session: that of
\* enterAction for a text trigger, none for a press
StagedPayload == IF event.trigger = "text" THEN session.payload ELSE UndefP

\* The capture of the regexp trigger the update matches, and the payload of the
\* invoke-action token it carries
CapturedPayload(u) ==
    IF RegexpCapture(u.text) # UndefS THEN CapturePayload(RegexpCapture(u.text)) ELSE UndefP
TokenPayload(u) ==
    IF u.data # UndefS /\ StartsWith(u.data, <<"a", ":">>) THEN DecodeCallbackPayload(u.data)
    ELSE UndefP

EmbeddedOrigin(data) ==
    CHOOSE m \in MenuIds \cup {<<>>} :
        StartsWith(data, <<"a", ":">> \o ActA \o <<"/">> \o m \o <<":">>)

\* C28: when the handler of an action entered through an invoke-action token
\* starts, the originMenuId of the session is the origin the token embeds,
\* undefined for an empty one; when the action is entered through a command or a
\* regexp trigger it is undefined, whatever it was before.
OriginAtStart ==
    event.kind = "enter" =>
        IF event.trigger = "button"
        THEN session.originMenuId = (IF EmbeddedOrigin(event.u.data) = <<>> THEN UndefS
                                     ELSE EmbeddedOrigin(event.u.data))
        ELSE session.originMenuId = UndefS

\* A button of menu A has entered the action after an earlier instance ended
OriginAtStartWitness ==
    /\ event.kind = "enter" /\ event.trigger = "button" /\ event.fresh
    /\ EmbeddedOrigin(event.u.data) = MenuA
    /\ session.originMenuId = MenuA

\* What an update whose run calls conversation.delete() does
DeleteStepOk ==
    \A k \in 1..Len(event'.log) :
        event'.log[k].op = "delete" =>
            LET d == event'.log[k]
            IN  /\ ~Exists(msgs', d.id) \/ msgs'[d.id].old
                /\ d.local = 0 /\ d.tracked = 0
                /\ k < Len(event'.log) =>
                      LET n == event'.log[k + 1]
                      IN  /\ n.op = "prompt" /\ n.how = "sent" /\ n.id = 0
                          /\ n.local > Len(msgs) /\ n.tracked = n.local
                          /\ Exists(msgs', n.local)

-----------------------------------------------------------------------------
(* Properties of two chats (SpecChats) *)

\* The conversation record of a chat kept in record rec: the payload staged and
\* the payload persisted, the tracked prompt message, the origin menu
ConversationRecord(rec) ==
    [staged |-> rec.session.payload, origin |-> rec.session.originMenuId,
     persisted |-> IF rec.active = <<>> THEN UndefP ELSE rec.active[1].first,
     prompt |-> IF rec.active = <<>> THEN 0 ELSE rec.active[1].tracked,
     entered |-> IF rec.active = <<>> THEN UndefS ELSE rec.active[1].origin]

\* The pages of a chat in the map ps
PagesOf(chat, ps) ==
    [k \in (DOMAIN menus) \X {0, 1} |-> PageGet(ps, pageKey(chat, k[1], k[2]))]

\* The dispatch of an update of the chat inp leaves the other chat alone
OtherChatStep ==
    inp' = inp =>
        /\ ConversationRecord(out') = ConversationRecord(out)
        /\ out'.msgs = out.msgs
        /\ \A k \in (DOMAIN menus) \X {0, 1} :
              PageGet(pageState', pageKey(OtherChat, k[1], k[2]))
                  = PageGet(pageState, pageKey(OtherChat, k[1], k[2]))

\* An update of the other chat comes next: each chat gets its own record
SwitchStep ==
    inp' # inp =>
        /\ ConversationRecord(out') = ConversationRecord(ChatRecord)
        /\ session' = out.session /\ active' = out.active
        /\ pageState' = pageState

\* C22: the dispatch of an update of chat X leaves the PageState entries and the
\* conversation record (persisted payload, prompt message id, origin menu id) of
\* every other chat Y as they are, however the updates of the chats interleave.
ChatsIsolated == [][OtherChatStep /\ SwitchStep]_vars

\* Chat 2 has turned its list to the second page and waits in a conversation a
\* button started, while chat 1 shows the first page and waits in a conversation
\* a regexp trigger started
ChatsIsolatedWitness ==
    /\ phase = "chats" /\ inp = 2
    /\ PagesOf(2, pageState)[<<RootId, 0>>] = 1
    /\ PagesOf(1, pageState)[<<RootId, 0>>] = 0
    /\ pageKey(1, RootId, 0) \in DOMAIN pageState
    /\ active # <<>> /\ event.kind = "enter"
    /\ ConversationRecord(ChatRecord).persisted = IdObj(Num(2))
    /\ ConversationRecord(ChatRecord).entered = RootId
    /\ ConversationRecord(out).persisted = IdObj(Num(7))
    /\ ConversationRecord(out).prompt # 0
    /\ ConversationRecord(out).origin = UndefS

-----------------------------------------------------------------------------
(* Properties of inline sub-actions, button targets, prompts, pages and rows   *)

\* The button of the action's layout a pressed ai: token was rendered for
PressedInline ==
    IF pressed.op = "ai" /\ ~pressed.missing
    THEN FindButton(ButtonEls(inp), ActA, pressed.target)
    ELSE NaN

\* C31: a press of an inline sub-action button executes the handler of that
\* button once and no other caller code: not the handler of the enclosing action
InlineRunsOnlyTarget ==
    (phase = "inline" /\ pressed.op = "ai" /\ ~pressed.missing)
        => out = <<RanInline(ActA, PressedInline)>>

\* The inline-handler buttons a screen shows, by their index among the buttons of
\* the layout that was rendered
ShownInline(layout) ==
    {b \in AllButtons(screen.keyboard) :
        /\ b.src.k = "button"
        /\ ButtonEls(layout)[b.src.i + 1].cfg.inlineHandler}

\* The screen shows a menu of the registry
ScreenOfMenu == screen.menuId \in DOMAIN menus

\* C38: an inline-handler button of a menu is rendered as an a: token that names
\* the synthetic action derived for it, and a token ai: is on screen only when
\* the layout rendered is that of an action; for generated and given menu ids
InlineTokenByOwner ==
    phase = "ids" =>
        /\ ScreenOfMenu =>
              \A b \in ShownInline(defs[screen.menuId]) :
                  /\ DecodeToken(b.data).op = "a"
                  /\ DecodeToken(b.data).target =
                        resolveStableId(screen.menuId,
                                        ButtonEls(defs[screen.menuId])[b.src.i + 1].cfg, b.src.i)
        /\ (\E b \in AllButtons(screen.keyboard) : DecodeToken(b.data).op = "ai")
              => screen.menuId \in actions

\* C39: every inline-handler button a rendered menu of the registry shows has its
\* derived action id registered, for menus the traversal reached and for menus
\* the sweep added
ShownInlineRegistered ==
    (phase = "ids" /\ ScreenOfMenu) =>
        \A b \in ShownInline(defs[screen.menuId]) :
            resolveStableId(screen.menuId,
                            ButtonEls(defs[screen.menuId])[b.src.i + 1].cfg, b.src.i)
                \in actions

\* The targets a button configuration has set
TargetsSet(cfg) ==
    {t \in {"url", "submenu", "action", "inline"} :
        \/ t = "url" /\ cfg.url # UndefS
        \/ t = "submenu" /\ cfg.submenu # UndefS
        \/ t = "action" /\ cfg.action # "none"
        \/ t = "inline" /\ cfg.inlineHandler}

\* C32: after every chain of ButtonBuilder calls at most one of URL, sub-menu,
\* action and inline handler is set, and a button with none of them is rendered
\* with a no-op token
OneTargetSet ==
    phase \in {"button", "rendered"} =>
        /\ Cardinality(TargetsSet(inp.cfg)) <= 1
        /\ (phase = "rendered" /\ TargetsSet(inp.cfg) = {}) =>
              \A b \in AllButtons(out.keyboard) : DecodeToken(b.data).op = "_"

\* The messages of the chat that show a prompt of the conversation
PromptMsgs(ms) == {id \in 1..Len(ms) : Exists(ms, id) /\ ms[id].kind \in {"prompt", "say"}}

\* The prompt messages of the conversation after an update: the one it had, those
\* it edited and those it sent while the update was handled
OwnPrompts ==
    {id \in PromptMsgs(msgs') :
        \/ id > Len(msgs) \/ id \in event'.touched
        \/ (active # <<>> /\ id = active[1].local)}

\* The helper ended the handling of the update with an ask or a say, and the
\* transport did not refuse the message the helper started from
EndsWithPrompt ==
    /\ phase = "chat" /\ event'.log # <<>>
    /\ event'.log[Len(event'.log)].op = "prompt"
    /\ ~(Exists(msgs, event'.at) /\ msgs[event'.at].old)

\* One prompt message, the one the helper tracks, which shows the question of the
\* ask that waits or the text of the say
OnePromptStep ==
    EndsWithPrompt =>
        \E last \in {event'.log[Len(event'.log)]} :
            /\ OwnPrompts = {last.local}
            /\ active' # <<>> =>
                  /\ active'[1].local = last.local
                  /\ msgs'[last.local].kind = "prompt"
                  /\ \E e \in {"none", "kind", "invalid"} :
                        msgs'[last.local].text =
                            Prompt("text", active'[1].pc, active'[1].fld, e).text
            /\ active' = <<>> => msgs'[last.local].kind = "say"

PageUsed == PageGet(pageState', pageKey(ChatId, RootId, 0))

\* A menu was rendered from the list as it is now
RenderStep == phase = "pages" /\ pressed'.rendered /\ defs' = defs /\ screen' # screen

\* A render uses a valid page index of the list
PageInRangeStep ==
    RenderStep =>
        /\ 0 <= PageUsed
        /\ PageUsed < (IF TotalPages(RootList) > 1 THEN TotalPages(RootList) ELSE 1)

\* C34: the page a render uses for a list is a valid page index of the list,
\* 0 <= page < max(1, ceil(N / P)), whatever change-page tokens were dispatched
\* and however the number of items changed between renders
PageInRange == [][PageInRangeStep]_vars

\* One update: PageState changes only by a change-page token, which sets the
\* entry it names and no other; a no-op token changes nothing
PageFrameStep ==
    /\ pageState' # pageState => pressed'.op = "p"
    /\ pressed'.op = "p" => pageState' = PageSet(pageState, pressed'.data)
    /\ pressed'.op = "_" => /\ UNCHANGED <<nvars, cvars>>
                            /\ ~pressed'.rendered

\* C35: PageState is modified only by the dispatch of a change-page token, which
\* sets exactly the entry (chat, menu, list index) the token names; renders,
\* navigate, refresh, switch-tab, invoke-action and no-op tokens leave every
\* entry as it is, and a no-op token changes no state and renders nothing
PageFrame == [][PageFrameStep]_vars

\* A no-op token was dispatched in a chat that has a page stored
PageFrameWitness ==
    /\ phase = "dispatch" /\ pressed.op = "_" /\ pageState # EmptyMap
    /\ Cardinality(DOMAIN pageState) >= 2

\* C36: the menu rendered for a change-page press shows the page the press asked
\* for, also when another update of the chat is dispatched while the handling of
\* the press is suspended
ShowsRequestedPage ==
    (phase = "race" /\ out # NoShown) => out.shown = out.requested

\* The last update came while a choice ask was waiting
ChoiceWaited ==
    /\ event.busy /\ event.pc # 0
    /\ script[event.pc].op = "ask" /\ script[event.pc].type = "choice"

\* C37: a choice ask resolves to the id of a button its own builder offered, or
\* to undefined on Cancel; a callback of any other button and a text message do
\* not resolve it and leave it waiting
ChoiceOwnButtons ==
    ChoiceWaited =>
        \/ event.u.data = AskYes /\ event.value = StrV(<<"y">>)
        \/ event.u.data = AskCancel /\ event.value = UndefP
        \/ /\ event.u.data \notin {AskYes, AskCancel}
           /\ active # <<>> /\ active[1].pc = event.pc
           /\ event.value = UndefP /\ event.error = "none"

\* The rows of a keyboard that hold neither list items nor pagination controls
PlainRows(kb) ==
    {r \in 1..Len(kb) :
        \A c \in 1..Len(kb[r]) : kb[r][c].src.k \notin {"item", "prev", "info", "next"}}

\* C40: with maxPerRow = m > 0 every row of the keyboard other than the rows of
\* list items and of pagination controls has at most m buttons, for every order
\* of button, list and refresh elements
RowLimit ==
    (phase = "out" /\ inp.layout.maxPerRow > 0) =>
        \A r \in PlainRows(out.keyboard) : Len(out.keyboard[r]) <= inp.layout.maxPerRow

====
